---- MODULE Spec2Model ----
(***************************************************************************)
(* Hurler: the request editor (raw text <-> HurlRequest via parseHurl and  *)
(* serializeHurl, edited through the visual editor) and the response panel *)
(* (extractResponseInfo over a RunResult).                                 *)
(*                                                                         *)
(* A JavaScript string is a sequence of one-character strings, so that     *)
(* trim, indexOf, startsWith, split and join are computed and not assumed. *)
(* Indices of the string helpers are 0-based, as in the source.            *)
(***************************************************************************)
EXTENDS Integers, Sequences, FiniteSets, TLC

VARIABLES
    editorContent,  \* App.tsx: the text shown by the raw and the visual editor
    savedContent,   \* App.tsx: the text of the open file as last read or written
    written,        \* the HurlRequest VisualEditor.update last serialized, if any
    edits,          \* visual-editor updates made to the text since it was opened
    runResult,      \* App.tsx: the RunResult shown by the response panel, if any
    isRunning,      \* App.tsx: a run has been started and has not come back
    runs,           \* App.tsx: the calls of handleRun that wait at an await
    executed,       \* the file and the text the runner ran for runResult, if any
    activeFile,     \* App.tsx: the name of the open file, if any
    collection,     \* server: the text of each file in COLLECTIONS_DIR, if it is there
    metadata,       \* server and App.tsx: the sections and the section of each file
    envDir,         \* server: the names of the files in ENVIRONMENTS_DIR
    invocation,     \* server: the runner's invocation for the last request, if any
    answer,         \* server: the last response sent, if any
    req             \* server: the last request handled, if any

\* the state of a run on the client, of the server, and of the files
clientRun == <<runResult, isRunning, runs, executed>>
serverVars == <<envDir, invocation, answer, req>>
fileVars == <<activeFile, collection, metadata>>

vars == <<editorContent, savedContent, written, edits, clientRun, serverVars, fileVars>>

\* an optional value (null, undefined, a missing field) is a sequence of length 0 or 1
None == <<>>
Some(v) == <<v>>

(***************************************************************************)
(* String primitives                                                       *)
(***************************************************************************)
NL == "\n"

\* String.prototype.trim's white space, as far as the alphabet of the model goes
IsWhiteSpace(c) == c \in {" ", "\t", "\r", NL}

LowerCase == <<"a","b","c","d","e","f","g","h","i","j","k","l","m",
               "n","o","p","q","r","s","t","u","v","w","x","y","z">>
UpperCase == <<"A","B","C","D","E","F","G","H","I","J","K","L","M",
               "N","O","P","Q","R","S","T","U","V","W","X","Y","Z">>

toUpperCaseChar(c) ==
    IF \E k \in 1..26 : LowerCase[k] = c
    THEN UpperCase[CHOOSE k \in 1..26 : LowerCase[k] = c]
    ELSE c

toUpperCase(s) == [k \in 1..Len(s) |-> toUpperCaseChar(s[k])]

\* s.substring(from) and s.substring(from, to), 0-based, to exclusive
substringFrom(s, from) == SubSeq(s, from + 1, Len(s))
substring(s, from, to) == SubSeq(s, from + 1, to)

\* s.indexOf(c) for a one-character needle: 0-based, -1 when absent
indexOf(s, c) ==
    IF \E k \in 1..Len(s) : s[k] = c
    THEN (CHOOSE k \in 1..Len(s) : s[k] = c /\ \A j \in 1..(k - 1) : s[j] # c) - 1
    ELSE -1

startsWith(s, p) == Len(s) >= Len(p) /\ SubSeq(s, 1, Len(p)) = p

trim(s) ==
    LET keep == {k \in 1..Len(s) : ~IsWhiteSpace(s[k])}
    IN  IF keep = {} THEN <<>>
        ELSE LET lo == CHOOSE k \in keep : \A j \in keep : k <= j
                 hi == CHOOSE k \in keep : \A j \in keep : k >= j
             IN  SubSeq(s, lo, hi)

\* s.split("\n"): always at least one piece
RECURSIVE splitLines(_)
splitLines(s) ==
    LET idx == indexOf(s, NL)
    IN  IF idx = -1 THEN <<s>>
        ELSE <<substring(s, 0, idx)>> \o splitLines(substringFrom(s, idx + 1))

\* s.split(/\s+/): the pieces between the maximal runs of white space
RECURSIVE splitWhiteSpace(_)
splitWhiteSpace(s) ==
    LET ws == {k \in 1..Len(s) : IsWhiteSpace(s[k])}
    IN  IF ws = {} THEN <<s>>
        ELSE LET first == CHOOSE k \in ws : \A j \in ws : k <= j
                 after == {k \in first..Len(s) : ~IsWhiteSpace(s[k])}
                 next  == IF after = {} THEN Len(s) + 1
                          ELSE CHOOSE k \in after : \A j \in after : k <= j
             IN  <<SubSeq(s, 1, first - 1)>> \o splitWhiteSpace(SubSeq(s, next, Len(s)))

\* lines.join("\n")
RECURSIVE joinLines(_)
joinLines(lines) ==
    IF Len(lines) = 0 THEN <<>>
    ELSE IF Len(lines) = 1 THEN lines[1]
    ELSE lines[1] \o <<NL>> \o joinLines(Tail(lines))

(***************************************************************************)
(* String literals of the source                                           *)
(***************************************************************************)
GET == <<"G","E","T">>
HTTP == <<"H","T","T","P">>
CapturesMarker == <<"[","C","a","p","t","u","r","e","s","]">>
AssertsMarker == <<"[","A","s","s","e","r","t","s","]">>
Star == <<"*">>
StarSpace == <<"*"," ">>
ResponseBodyMarker == <<"*"," ","R","e","s","p","o","n","s","e"," ","b","o","d","y",":">>
TimingsMarker == <<"*"," ","T","i","m","i","n","g","s",":">>
UnknownError == <<"U","n","k","n","o","w","n"," ","e","r","r","o","r">>

(***************************************************************************)
(* hurl-parser.ts                                                          *)
(***************************************************************************)
\* the result object parseHurl starts from
EmptyRequest ==
    [method |-> GET, url |-> <<>>, headers |-> <<>>, body |-> <<>>,
     responseStatus |-> <<>>, captures |-> <<>>, asserts |-> <<>>]

\* lines after content.split("\n") and the removal of one trailing empty line
contentLines(content) ==
    LET lines == splitLines(content)
    IN  IF Len(lines) > 0 /\ lines[Len(lines)] = <<>>
        THEN SubSeq(lines, 1, Len(lines) - 1)
        ELSE lines

\* a parser without the guard on an empty first line
parseRequestLineUnguarded(line) ==
    LET firstLine == trim(line)
        spaceIdx  == indexOf(firstLine, " ")
    IN  IF spaceIdx # -1
        THEN [method |-> toUpperCase(substring(firstLine, 0, spaceIdx)),
              url    |-> trim(substringFrom(firstLine, spaceIdx + 1))]
        ELSE [method |-> toUpperCase(firstLine), url |-> <<>>]

\* Line 1: METHOD URL
parseRequestLine(line) ==
    LET firstLine == trim(line)
        spaceIdx  == indexOf(firstLine, " ")
    IN  IF firstLine = <<>> THEN [method |-> GET, url |-> <<>>]
        ELSE IF spaceIdx # -1
        THEN [method |-> toUpperCase(substring(firstLine, 0, spaceIdx)),
              url    |-> trim(substringFrom(firstLine, spaceIdx + 1))]
        ELSE [method |-> toUpperCase(firstLine), url |-> <<>>]

\* a header loop that takes every line with a colon, a JSON line too
RECURSIVE parseHeadersAnyColon(_, _, _)
parseHeadersAnyColon(lines, i, headers) ==
    IF i > Len(lines) THEN [i |-> i, headers |-> headers]
    ELSE LET trimmed  == trim(lines[i])
             colonIdx == indexOf(trimmed, ":")
         IN  IF trimmed = <<>> THEN [i |-> i + 1, headers |-> headers]
             ELSE IF startsWith(trimmed, HTTP) THEN [i |-> i, headers |-> headers]
             ELSE IF colonIdx >= 0
             THEN parseHeadersAnyColon(lines, i + 1,
                      Append(headers,
                             [key   |-> trim(substring(trimmed, 0, colonIdx)),
                              value |-> trim(substringFrom(trimmed, colonIdx + 1))]))
             ELSE [i |-> i, headers |-> headers]

\* the header loop: i is the 1-based index of the line looked at; the result is
\* the headers collected and the index the body loop starts at
RECURSIVE parseHeaders(_, _, _)
parseHeaders(lines, i, headers) ==
    IF i > Len(lines) THEN [i |-> i, headers |-> headers]
    ELSE LET trimmed  == trim(lines[i])
             colonIdx == indexOf(trimmed, ":")
         IN  IF trimmed = <<>> THEN [i |-> i + 1, headers |-> headers]
             ELSE IF startsWith(trimmed, HTTP) THEN [i |-> i, headers |-> headers]
             ELSE IF colonIdx >= 0 /\ ~startsWith(trimmed, <<"{">>)
                                   /\ ~startsWith(trimmed, <<"[">>)
             THEN parseHeaders(lines, i + 1,
                      Append(headers,
                             [key   |-> trim(substring(trimmed, 0, colonIdx)),
                              value |-> trim(substringFrom(trimmed, colonIdx + 1))]))
             ELSE [i |-> i, headers |-> headers]

\* the body loop: the index of the first line at or after i that, trimmed,
\* starts with HTTP, or Len(lines) + 1
RECURSIVE parseBodyEnd(_, _)
parseBodyEnd(lines, i) ==
    IF i > Len(lines) THEN i
    ELSE IF startsWith(trim(lines[i]), HTTP) THEN i
    ELSE parseBodyEnd(lines, i + 1)

\* a body that keeps its trailing blank lines
keepBlankLines(bodyLines) == bodyLines

\* a body that loses its trailing lines of length 0 only
RECURSIVE popEmptyLines(_)
popEmptyLines(bodyLines) ==
    IF Len(bodyLines) > 0 /\ bodyLines[Len(bodyLines)] = <<>>
    THEN popEmptyLines(SubSeq(bodyLines, 1, Len(bodyLines) - 1))
    ELSE bodyLines

\* Trim trailing empty lines from body
RECURSIVE popBlankLines(_)
popBlankLines(bodyLines) ==
    IF Len(bodyLines) > 0 /\ trim(bodyLines[Len(bodyLines)]) = <<>>
    THEN popBlankLines(SubSeq(bodyLines, 1, Len(bodyLines) - 1))
    ELSE bodyLines

\* Response status: HTTP <status>
parseStatus(line) ==
    LET parts == splitWhiteSpace(trim(line))
    IN  IF Len(parts) >= 2 THEN parts[2] ELSE <<>>

\* a section loop that takes a line in front of the first marker for an assert
RECURSIVE parseSectionsOrphanAsserts(_, _, _, _, _)
parseSectionsOrphanAsserts(lines, i, currentSection, captures, asserts) ==
    IF i > Len(lines) THEN [captures |-> captures, asserts |-> asserts]
    ELSE LET trimmed == trim(lines[i])
         IN  IF trimmed = CapturesMarker
             THEN parseSectionsOrphanAsserts(lines, i + 1, "captures", captures, asserts)
             ELSE IF trimmed = AssertsMarker
             THEN parseSectionsOrphanAsserts(lines, i + 1, "asserts", captures, asserts)
             ELSE IF currentSection = "captures"
             THEN parseSectionsOrphanAsserts(lines, i + 1, currentSection,
                                             Append(captures, trimmed), asserts)
             ELSE IF currentSection = "asserts" \/ trimmed # <<>>
             THEN parseSectionsOrphanAsserts(lines, i + 1, "asserts",
                                             captures, Append(asserts, trimmed))
             ELSE parseSectionsOrphanAsserts(lines, i + 1, currentSection, captures, asserts)

\* a section loop that keeps no blank line
RECURSIVE parseSectionsNoBlank(_, _, _, _, _)
parseSectionsNoBlank(lines, i, currentSection, captures, asserts) ==
    IF i > Len(lines) THEN [captures |-> captures, asserts |-> asserts]
    ELSE LET trimmed == trim(lines[i])
         IN  IF trimmed = CapturesMarker
             THEN parseSectionsNoBlank(lines, i + 1, "captures", captures, asserts)
             ELSE IF trimmed = AssertsMarker
             THEN parseSectionsNoBlank(lines, i + 1, "asserts", captures, asserts)
             ELSE IF currentSection = "captures" /\ trimmed # <<>>
             THEN parseSectionsNoBlank(lines, i + 1, currentSection,
                                       Append(captures, trimmed), asserts)
             ELSE IF currentSection = "asserts" /\ trimmed # <<>>
             THEN parseSectionsNoBlank(lines, i + 1, currentSection,
                                       captures, Append(asserts, trimmed))
             ELSE parseSectionsNoBlank(lines, i + 1, currentSection, captures, asserts)

\* the [Captures] / [Asserts] loop from line i on
RECURSIVE parseSections(_, _, _, _, _)
parseSections(lines, i, currentSection, captures, asserts) ==
    IF i > Len(lines) THEN [captures |-> captures, asserts |-> asserts]
    ELSE LET trimmed == trim(lines[i])
         IN  IF trimmed = CapturesMarker
             THEN parseSections(lines, i + 1, "captures", captures, asserts)
             ELSE IF trimmed = AssertsMarker
             THEN parseSections(lines, i + 1, "asserts", captures, asserts)
             ELSE IF currentSection = "captures"
             THEN parseSections(lines, i + 1, currentSection,
                                Append(captures, trimmed), asserts)
             ELSE IF currentSection = "asserts"
             THEN parseSections(lines, i + 1, currentSection,
                                captures, Append(asserts, trimmed))
             ELSE parseSections(lines, i + 1, currentSection, captures, asserts)

parseHurl(content) ==
    LET lines == contentLines(content)
    IN  IF Len(lines) = 0 THEN EmptyRequest
        ELSE LET first    == parseRequestLine(lines[1])
                 hdr      == parseHeaders(lines, 2, <<>>)
                 bodyEnd  == parseBodyEnd(lines, hdr.i)
                 body     == joinLines(popBlankLines(SubSeq(lines, hdr.i, bodyEnd - 1)))
                 hasHttp  == bodyEnd <= Len(lines)
                 status   == IF hasHttp THEN parseStatus(lines[bodyEnd]) ELSE <<>>
                 secStart == IF hasHttp THEN bodyEnd + 1 ELSE bodyEnd
                 sec      == parseSections(lines, secStart, "none", <<>>, <<>>)
             IN  [method |-> first.method, url |-> first.url,
                  headers |-> hdr.headers, body |-> body,
                  responseStatus |-> status,
                  captures |-> sec.captures, asserts |-> sec.asserts]

headerLine(header) == header.key \o <<":", " ">> \o header.value

\* a serializer that drops the rows whose name and value are both blank
serializeHeadersNonBlank(request) ==
    LET kept == SelectSeq(request.headers,
                          LAMBDA h : trim(h.key) # <<>> \/ trim(h.value) # <<>>)
    IN  [k \in 1..Len(kept) |-> headerLine(kept[k])]

\* Headers (keep empty ones for visual editor to work)
serializeHeaders(request) ==
    [k \in 1..Len(request.headers) |-> headerLine(request.headers[k])]

\* a serializer that forgets the blank line in front of the body
serializeBodyNoBlank(request) ==
    IF trim(request.body) # <<>> THEN <<request.body>> ELSE <<>>

\* Body
serializeBody(request) ==
    IF trim(request.body) # <<>> THEN <<<<>>, request.body>> ELSE <<>>

\* an HTTP line without the * for an empty status
statusLineNoStar(request) == HTTP \o <<" ">> \o request.responseStatus

statusLine(request) ==
    HTTP \o <<" ">> \o (IF request.responseStatus # <<>>
                        THEN request.responseStatus ELSE Star)

\* a serializer that writes the [Asserts] section first
serializeResponseAssertsFirst(request) ==
    IF request.responseStatus # <<>> \/ Len(request.captures) > 0
                                     \/ Len(request.asserts) > 0
    THEN <<<<>>, statusLine(request)>>
         \o (IF Len(request.asserts) > 0
             THEN <<AssertsMarker>> \o request.asserts ELSE <<>>)
         \o (IF Len(request.captures) > 0
             THEN <<CapturesMarker>> \o request.captures ELSE <<>>)
    ELSE <<>>

\* Response section
serializeResponse(request) ==
    IF request.responseStatus # <<>> \/ Len(request.captures) > 0
                                     \/ Len(request.asserts) > 0
    THEN <<<<>>, statusLine(request)>>
         \o (IF Len(request.captures) > 0
             THEN <<CapturesMarker>> \o request.captures ELSE <<>>)
         \o (IF Len(request.asserts) > 0
             THEN <<AssertsMarker>> \o request.asserts ELSE <<>>)
    ELSE <<>>

serializeHurl(request) ==
    joinLines(
        <<request.method \o <<" ">> \o request.url>>
        \o serializeHeaders(request)
        \o serializeBody(request)
        \o serializeResponse(request)
        \o <<<<>>>>)

(***************************************************************************)
(* Bounds and input alphabets                                              *)
(***************************************************************************)
MaxLines == 3      \* lines typed after the request line in the raw editor
MaxEdits == 2      \* visual-editor updates made to one opened text
MaxRows == 2       \* header rows and assert rows the visual editor is taken to
MaxStderrLines == 4    \* lines of a verbose log
MaxCalls == 2      \* calls of one entry of a JSON trace
MaxEntries == 2    \* entries of a JSON trace
MaxRuns == 2       \* calls of handleRun that have not come back

\* request lines a user types: plain, lower case with loose spacing, method
\* only, blank
FirstLines ==
    { <<"G","E","T"," ","/","x">>,
      <<" ","p","u","t"," "," ","/","y"," ">>,
      <<"g","e","t">>,
      <<" ">> }

\* the other lines a user types
LineVocab ==
    { <<>>,
      <<" ">>,
      <<"A",":"," ","b">>,
      <<" ","c"," ",":","d"," ">>,
      <<"{","a",":"," ","1","}">>,
      <<"x">>,
      HTTP \o <<" ","2","0","0">>,
      HTTP,
      HTTP \o <<"S",":"," ","k">>,
      CapturesMarker,
      AssertsMarker }

\* stored request files the editor opens
\* GET https://httpbin.org/get\nHTTP 200\n
DefaultContent ==
    <<"G","E","T"," ","h","t","t","p","s",":","/","/","h","t","t","p","b","i","n",".","o","r","g","/","g","e","t","\n","H","T","T","P"," ","2","0","0","\n">>
\* POST https://api.example.com/users\nContent-Type: application/json\n\n{"name": "a"}\n\nHTTP 201\n[Asserts]\njsonpath "$.id" exists\n
UsersExample ==
    <<"P","O","S","T"," ","h","t","t","p","s",":","/","/","a","p","i",".","e","x","a","m","p","l","e",".","c","o","m","/","u","s","e","r","s","\n","C","o","n","t","e","n","t","-","T","y","p","e",":"," ","a","p","p","l","i","c","a","t","i","o","n","/","j","s","o","n","\n","\n","{","\"","n","a","m","e","\"",":"," ","\"","a","\"","}","\n","\n","H","T","T","P"," ","2","0","1","\n","[","A","s","s","e","r","t","s","]","\n","j","s","o","n","p","a","t","h"," ","\"","$",".","i","d","\""," ","e","x","i","s","t","s","\n">>
\* GET /x\nAuthorization: Bearer abc\n\n{"a": 1}\n\nHTTP 200
BearerExample ==
    <<"G","E","T"," ","/","x","\n","A","u","t","h","o","r","i","z","a","t","i","o","n",":"," ","B","e","a","r","e","r"," ","a","b","c","\n","\n","{","\"","a","\"",":"," ","1","}","\n","\n","H","T","T","P"," ","2","0","0">>
\* PUT /x\nA: b\n\nx\n\n y z\n\nHTTP 200\n[Asserts]\nx\n\n[Captures]\nc: d\n
BothSections ==
    <<"P","U","T"," ","/","x","\n","A",":"," ","b","\n","\n","x","\n","\n"," ","y"," ","z","\n","\n","H","T","T","P"," ","2","0","0","\n","[","A","s","s","e","r","t","s","]","\n","x","\n","\n","[","C","a","p","t","u","r","e","s","]","\n","c",":"," ","d","\n">>
\* GET /x\nA: b\nHTTP\n[Asserts]\nx\n
BareHttp ==
    <<"G","E","T"," ","/","x","\n","A",":"," ","b","\n","H","T","T","P","\n","[","A","s","s","e","r","t","s","]","\n","x","\n">>
\* get\n c :d \n\n\nx\n
NoResponse ==
    <<"g","e","t","\n"," ","c"," ",":","d"," ","\n","\n","\n","x","\n">>

\* GET /x\nHTTP 200\ny\n[Asserts]\nx\n
OrphanLine ==
    <<"G","E","T"," ","/","x","\n","H","T","T","P"," ","2","0","0","\n","y","\n","[","A","s","s","e","r","t","s","]","\n","x","\n">>
Files == {DefaultContent, UsersExample, BearerExample, BothSections, BareHttp, NoResponse,
          OrphanLine}

\* the files that are run: one with HTTP 200 on line 2, one with HTTP on line 3
\* and an assert on line 5
PanelFiles == {DefaultContent, BareHttp}

(***************************************************************************)
(* Inputs of the visual editor's fields                                    *)
(***************************************************************************)
POST == <<"P","O","S","T">>
PUT == <<"P","U","T">>
PATCH == <<"P","A","T","C","H">>
DELETE == <<"D","E","L","E","T","E">>
HEAD == <<"H","E","A","D">>
OPTIONS == <<"O","P","T","I","O","N","S">>

METHODS == {GET, POST, PUT, PATCH, DELETE, HEAD, OPTIONS}
BODY_METHODS == {POST, PUT, PATCH}

\* the body the Add Body button inserts: "{\n  \n}"
AddedBody == <<"{", NL, " ", " ", NL, "}">>

EmptyHeader == [key |-> <<>>, value |-> <<>>]

\* what the user picks or types: a trailing blank, a colon in a header name and
\* a leading blank are among the values
MethodInputs == {GET, POST}
UrlInputs == { <<"/","y">>, <<"/","y"," ">> }
KeyInputs == { <<"K">>, <<"a",":">>, <<"H","T","T","P">> }
ValueInputs == { <<"v">>, <<"v"," ">> }
BodyInputs == { <<"x">>, <<"x", NL>> }
StatusInputs == { <<"2","0","1">>, <<>> }
AssertInputs == { <<"x">>, <<" ","x">> }

(***************************************************************************)
(* What a run gives back: api.ts RunResult, of which the response panel    *)
(* reads json (the runner's JSON trace) and stderr (its verbose log)       *)
(***************************************************************************)
SeqsUpTo(S, n) == UNION {[1..m -> S] : m \in 0..n}

\* lines of a verbose log: the marker of a response body, a line that starts
\* with it, a body line behind "* ", a bare line, the two lines that end a body
StderrLines ==
    { ResponseBodyMarker,
      ResponseBodyMarker \o <<" ","x">>,
      <<"*"," ","a">>,
      <<"b">>,
      Star,
      TimingsMarker \o <<" ","1">> }

Stderrs == {joinLines(ls) : ls \in SeqsUpTo(StderrLines, MaxStderrLines)}

\* the log of a redirected request: the body of each hop
\* * Response body:\n* first\n*\n* Response body:\n* final\n*
TwoHopStderr ==
    joinLines(<< ResponseBodyMarker, <<"*"," ","f","i","r","s","t">>, Star,
                 ResponseBodyMarker, <<"*"," ","f","i","n","a","l">>, Star >>)

call302 ==
    [response |-> Some([status |-> Some(302),
                        headers |-> Some(<<[name |-> "location", value |-> "/y"]>>)])]
call200 ==
    [response |-> Some([status |-> Some(200),
                        headers |-> Some(<<[name |-> "content-type", value |-> "text/plain"],
                                           [name |-> "etag", value |-> "1"]>>)])]
callNoResponse == [response |-> None]

Calls == {call302, call200, callNoResponse}

\* the calls field of an entry: missing, or a list of calls
CallLists == {None} \cup {Some(cs) : cs \in SeqsUpTo(Calls, MaxCalls)}

\* the asserts field of an entry: missing, or a list of assert results
\* messages of failed asserts: with both values, with the values on the lines
\* after their names, with one value only, with none
\* actual:   1\nexpected: 2
BothValuesMessage == <<"a","c","t","u","a","l",":"," "," "," ","1","\n","e","x","p","e","c","t","e","d",":"," ","2"," ">>
\* actual:\n 1\nexpected:\n 2
NextLineMessage == <<"a","c","t","u","a","l",":","\n"," ","1","\n","e","x","p","e","c","t","e","d",":","\n"," ","2">>
\* actual: 1
ActualOnlyMessage == <<"a","c","t","u","a","l",":"," ","1">>
\* no match
PlainMessage == <<"n","o"," ","m","a","t","c","h">>

AssertLists ==
    {None, Some(<<[line |-> 2, success |-> TRUE], [line |-> 3, success |-> TRUE],
                  [line |-> 5, success |-> FALSE]>>),
     Some(<<[line |-> 3, success |-> FALSE, message |-> BothValuesMessage],
            [line |-> 3, success |-> FALSE, message |-> NextLineMessage],
            [line |-> 5, success |-> FALSE, message |-> ActualOnlyMessage],
            [line |-> 5, success |-> FALSE, message |-> PlainMessage],
            [line |-> 3, success |-> FALSE, message |-> <<>>]>>)}

Entries == {[calls |-> cs, asserts |-> as] : cs \in CallLists, as \in AssertLists}

\* entries of a file run before its last one
EarlierEntries ==
    { [calls |-> Some(<<call302>>), asserts |-> Some(<<[line |-> 2, success |-> TRUE]>>)],
      [calls |-> None, asserts |-> None] }

\* result.json: null, an object without entries, or a trace
Traces ==
    {None, Some([entries |-> None]), Some([entries |-> Some(<<>>)])}
    \cup {Some([entries |-> Some(Append(es, e))]) :
              es \in SeqsUpTo(EarlierEntries, MaxEntries - 1), e \in Entries}

TwoHopTrace ==
    Some([entries |-> Some(<<[calls |-> Some(<<call302, call200>>), asserts |-> None]>>)])

\* every trace with the log of a run without output, of one hop and of two hops,
\* and every log with no trace, an empty trace and a trace of two hops
RunResults ==
    {[json |-> j, stderr |-> s] :
         j \in Traces,
         s \in {<<>>, joinLines(<<ResponseBodyMarker, <<"*"," ","a">>, Star>>), TwoHopStderr}}
    \cup {[json |-> j, stderr |-> s] :
              j \in {None, Some([entries |-> Some(<<>>)]), TwoHopTrace},
              s \in Stderrs}

\* messages of the errors api.runHurl throws
ErrorMessages == { <<"F","a","i","l","e","d"," ","t","o"," ","f","e","t","c","h">> }

(***************************************************************************)
(* request-editor.tsx: the raw editor                                      *)
(***************************************************************************)
\* number of lines typed after the request line
typedLines(content) == Len(splitLines(content)) - 1

\* CodeMirror's update listener: onChange(doc.toString()) for a request line
\* typed into an empty document
TypeRequestLine ==
    /\ editorContent = <<>>
    /\ edits = 0
    /\ \E f \in FirstLines : editorContent' = f
    /\ written' = None
    /\ UNCHANGED <<edits, savedContent, clientRun, serverVars, fileVars>>

\* ... for a whole request pasted into an empty document
PasteText ==
    /\ editorContent = <<>>
    /\ edits = 0
    /\ \E f \in Files : editorContent' = f
    /\ written' = None
    /\ UNCHANGED <<edits, savedContent, clientRun, serverVars, fileVars>>

\* ... for one more line typed at the end of the document
TypeLine ==
    /\ edits = 0
    /\ typedLines(editorContent) < MaxLines
    /\ \E l \in LineVocab : editorContent' = editorContent \o <<NL>> \o l
    /\ written' = None
    /\ UNCHANGED <<edits, savedContent, clientRun, serverVars, fileVars>>

\* ... for the document deleted as a whole
ClearText ==
    /\ edits = 0
    /\ editorContent # <<>>
    /\ editorContent' = <<>>
    /\ written' = None
    /\ UNCHANGED <<edits, savedContent, clientRun, serverVars, fileVars>>

(***************************************************************************)
(* visual-editor.tsx                                                       *)
(***************************************************************************)
\* { ...request, ...patch } for a patch of one field
patched(request, field, value) == [request EXCEPT ![field] = value]

\* update(patch): onChange(serializeHurl({ ...request, ...patch })), where request
\* is parseHurl(content)
update(field, value) ==
    \E doc \in {patched(parseHurl(editorContent), field, value)} :
        /\ editorContent' = serializeHurl(doc)
        /\ written' = Some(doc)
        /\ edits' = edits + 1
        /\ UNCHANGED <<savedContent, clientRun, serverVars, fileVars>>

removeAt(seq, i) == SubSeq(seq, 1, i - 1) \o SubSeq(seq, i + 1, Len(seq))

\* the method Select
SetMethod ==
    /\ edits < MaxEdits
    /\ \E m \in MethodInputs : update("method", m)

\* the URL Input
SetUrl ==
    /\ edits < MaxEdits
    /\ \E u \in UrlInputs : update("url", u)

\* the name Input of header row i
SetHeaderKey ==
    /\ edits < MaxEdits
    /\ \E headers \in {parseHurl(editorContent).headers} :
           \E i \in 1..Len(headers), k \in KeyInputs :
               update("headers", [headers EXCEPT ![i].key = k])

\* the value Input of header row i
SetHeaderValue ==
    /\ edits < MaxEdits
    /\ \E headers \in {parseHurl(editorContent).headers} :
           \E i \in 1..Len(headers), v \in ValueInputs :
               update("headers", [headers EXCEPT ![i].value = v])

\* the trash button of header row i
RemoveHeader ==
    /\ edits < MaxEdits
    /\ \E headers \in {parseHurl(editorContent).headers} :
           \E i \in 1..Len(headers) : update("headers", removeAt(headers, i))

\* the Add Header button
AddHeader ==
    /\ edits < MaxEdits
    /\ \E headers \in {parseHurl(editorContent).headers} :
           /\ Len(headers) < MaxRows
           /\ update("headers", Append(headers, EmptyHeader))

\* the body editor, shown when there is a body or the method takes one
SetBody ==
    /\ edits < MaxEdits
    /\ \E request \in {parseHurl(editorContent)} :
           /\ request.body # <<>> \/ request.method \in BODY_METHODS
           /\ \E b \in BodyInputs : update("body", b)

\* the Remove Body button, shown when there is a body
RemoveBody ==
    /\ edits < MaxEdits
    /\ parseHurl(editorContent).body # <<>>
    /\ update("body", <<>>)

\* the Add Body button, shown when the body editor is not
AddBody ==
    /\ edits < MaxEdits
    /\ \E request \in {parseHurl(editorContent)} :
           /\ ~(request.body # <<>> \/ request.method \in BODY_METHODS)
           /\ update("body", AddedBody)

\* the response status Input
SetResponseStatus ==
    /\ edits < MaxEdits
    /\ \E st \in StatusInputs : update("responseStatus", st)

\* the Input of assert row i
SetAssert ==
    /\ edits < MaxEdits
    /\ \E asserts \in {parseHurl(editorContent).asserts} :
           \E i \in 1..Len(asserts), a \in AssertInputs :
               update("asserts", [asserts EXCEPT ![i] = a])

\* the trash button of assert row i
RemoveAssert ==
    /\ edits < MaxEdits
    /\ \E asserts \in {parseHurl(editorContent).asserts} :
           \E i \in 1..Len(asserts) : update("asserts", removeAt(asserts, i))

\* the Add Assert button
AddAssert ==
    /\ edits < MaxEdits
    /\ \E asserts \in {parseHurl(editorContent).asserts} :
           /\ Len(asserts) < MaxRows
           /\ update("asserts", Append(asserts, <<>>))

(***************************************************************************)
(* response-panel.tsx                                                      *)
(***************************************************************************)
\* the for loop of extractBodyFromVerbose from line k on: the body lines
\* collected when it ends or breaks
RECURSIVE collectBodyKeepStar(_, _, _, _)
collectBodyKeepStar(lines, k, capturing, bodyLines) ==
    IF k > Len(lines) THEN bodyLines
    ELSE IF startsWith(lines[k], ResponseBodyMarker)
         THEN collectBodyKeepStar(lines, k + 1, TRUE, bodyLines)
    ELSE IF ~capturing THEN collectBodyKeepStar(lines, k + 1, FALSE, bodyLines)
    ELSE IF lines[k] = Star \/ startsWith(lines[k], TimingsMarker) THEN bodyLines
    ELSE collectBodyKeepStar(lines, k + 1, TRUE, Append(bodyLines, lines[k]))

RECURSIVE collectBody(_, _, _, _)
collectBody(lines, k, capturing, bodyLines) ==
    IF k > Len(lines) THEN bodyLines
    ELSE IF startsWith(lines[k], ResponseBodyMarker)
         THEN collectBody(lines, k + 1, TRUE, bodyLines)
    ELSE IF ~capturing THEN collectBody(lines, k + 1, FALSE, bodyLines)
    ELSE IF lines[k] = Star \/ startsWith(lines[k], TimingsMarker) THEN bodyLines
    ELSE collectBody(lines, k + 1, TRUE,
             Append(bodyLines, IF startsWith(lines[k], StarSpace)
                               THEN substringFrom(lines[k], 2)
                               ELSE lines[k]))

extractBodyFromVerbose(stderr) ==
    joinLines(collectBody(splitLines(stderr), 1, FALSE, <<>>))

\* json?.entries?.length is a positive number
hasEntries(json) ==
    /\ json # None
    /\ json[1].entries # None
    /\ Len(json[1].entries[1]) > 0

\* extractResponseInfo reading the first entry and its first call
extractResponseInfoFirst(result) ==
    LET body == extractBodyFromVerbose(result.stderr)
    IN  IF ~hasEntries(result.json)
        THEN [status |-> 0, headers |-> <<>>,
              body |-> IF body # <<>> THEN body ELSE result.stderr,
              asserts |-> <<>>]
        ELSE LET entries == result.json[1].entries[1]
                 lastEntry == entries[1]
                 calls == IF lastEntry.calls = None THEN <<>> ELSE lastEntry.calls[1]
                 lastCall == IF Len(calls) = 0 THEN None ELSE Some(calls[1])
                 response == IF lastCall = None THEN None ELSE lastCall[1].response
             IN  [status |-> IF response = None \/ response[1].status = None
                             THEN 0 ELSE response[1].status[1],
                  headers |-> IF response = None \/ response[1].headers = None
                              THEN <<>> ELSE response[1].headers[1],
                  body |-> body,
                  asserts |-> IF lastEntry.asserts = None
                              THEN <<>> ELSE lastEntry.asserts[1]]

\* extractResponseInfo that falls back to stderr only for a json of null
extractResponseInfoNullOnly(result) ==
    LET body == extractBodyFromVerbose(result.stderr)
    IN  IF result.json = None
        THEN [status |-> 0, headers |-> <<>>,
              body |-> IF body # <<>> THEN body ELSE result.stderr,
              asserts |-> <<>>]
        ELSE IF ~hasEntries(result.json)
        THEN [status |-> 0, headers |-> <<>>, body |-> body, asserts |-> <<>>]
        ELSE extractResponseInfoFirst(result)

extractResponseInfo(result) ==
    LET body == extractBodyFromVerbose(result.stderr)
    IN  IF ~hasEntries(result.json)
        THEN [status |-> 0, headers |-> <<>>,
              body |-> IF body # <<>> THEN body ELSE result.stderr,
              asserts |-> <<>>]
        ELSE LET entries == result.json[1].entries[1]
                 lastEntry == entries[Len(entries)]
                 calls == IF lastEntry.calls = None THEN <<>> ELSE lastEntry.calls[1]
                 \* calls[calls.length - 1] is undefined for an empty list
                 lastCall == IF Len(calls) = 0 THEN None ELSE Some(calls[Len(calls)])
                 response == IF lastCall = None THEN None ELSE lastCall[1].response
             IN  [status |-> IF response = None \/ response[1].status = None
                             THEN 0 ELSE response[1].status[1],
                  headers |-> IF response = None \/ response[1].headers = None
                              THEN <<>> ELSE response[1].headers[1],
                  body |-> body,
                  asserts |-> IF lastEntry.asserts = None
                              THEN <<>> ELSE lastEntry.asserts[1]]

\* sourceLines[a.line - 1]?.trim() ?? "": the text of the 1-indexed line, "" for
\* a line the source does not have
assertSourceLine(a, sourceLines) ==
    IF a.line - 1 >= 0 /\ a.line - 1 < Len(sourceLines)
    THEN trim(sourceLines[(a.line - 1) + 1])
    ELSE <<>>

\* explicitAsserts with sourceLines[a.line], the line after the assert's
explicitAssertsNextLine(asserts, sourceLines) ==
    SelectSeq(asserts,
        LAMBDA a : ~startsWith(assertSourceLine([a EXCEPT !.line = a.line + 1],
                                                sourceLines), HTTP))

\* ResponsePanel: the asserts shown, those not on an HTTP line
explicitAsserts(asserts, sourceLines) ==
    SelectSeq(asserts, LAMBDA a : ~startsWith(assertSourceLine(a, sourceLines), HTTP))

\* the decimal digits of a line number
RECURSIVE numberText(_)
numberText(n) ==
    LET digit == <<"0","1","2","3","4","5","6","7","8","9">>[(n % 10) + 1]
    IN  IF n < 10 THEN <<digit>> ELSE Append(numberText(n \div 10), digit)

\* the label of an assert row: its source line, or Line <n>
getAssertLabel(a, sourceLines) ==
    LET sourceLine == assertSourceLine(a, sourceLines)
    IN  IF sourceLine # <<>> THEN sourceLine
        ELSE <<"L","i","n","e"," ">> \o numberText(a.line)

\* message.match(/<name>\s+(.+)/)[1]: the first place where the name is followed
\* by white space and one more character of the same line; the white space
\* taken is the longest that leaves such a character, the group runs to the end
\* of that line
matchAfter(message, name) ==
    LET ends(p) == {e \in p + Len(name) + 1..Len(message) :
                        /\ \A w \in p + Len(name)..e - 1 : IsWhiteSpace(message[w])
                        /\ message[e] # NL}
        places == {p \in 1..Len(message) :
                       /\ p + Len(name) - 1 <= Len(message)
                       /\ SubSeq(message, p, p + Len(name) - 1) = name
                       /\ ends(p) # {}}
    IN  IF places = {} THEN None
        ELSE LET p == CHOOSE q \in places : \A other \in places : q <= other
                 e == CHOOSE x \in ends(p) : \A other \in ends(p) : other <= x
                 stops == {n \in e..Len(message) : message[n] = NL}
                 last == IF stops = {} THEN Len(message)
                         ELSE (CHOOSE n \in stops : \A other \in stops : n <= other) - 1
             IN  Some(SubSeq(message, e, last))

ActualName == <<"a","c","t","u","a","l",":">>
ExpectedName == <<"e","x","p","e","c","t","e","d",":">>

getFailureDetail(message) ==
    LET actualMatch == matchAfter(message, ActualName)
        expectedMatch == matchAfter(message, ExpectedName)
    IN  IF actualMatch # None /\ expectedMatch # None
        THEN Some([actual |-> trim(actualMatch[1]), expected |-> trim(expectedMatch[1])])
        ELSE None

\* a.message, an optional field
messageOf(a) == IF "message" \in DOMAIN a THEN Some(a.message) ELSE None

\* what a row of the asserts tab shows: the mark, the label and, if the message
\* has both values, the two values; nothing else of the message
assertRow(a, sourceLines) ==
    LET detail == IF messageOf(a) # None /\ a.message # <<>>
                  THEN getFailureDetail(a.message) ELSE None
    IN  [label |-> getAssertLabel(a, sourceLines), success |-> a.success,
         detail |-> detail]

passCount(shownAsserts) == Len(SelectSeq(shownAsserts, LAMBDA a : a.success))
failCount(shownAsserts) == Len(SelectSeq(shownAsserts, LAMBDA a : ~a.success))

(***************************************************************************)
(* The server: POST /api/run and the environments                          *)
(***************************************************************************)
endsWith(s, p) == Len(s) >= Len(p) /\ SubSeq(s, Len(s) - Len(p) + 1, Len(s)) = p

DotEnv == <<".","e","n","v">>
DotSecretsEnv == <<".","s","e","c","r","e","t","s",".","e","n","v">>
DotHurl == <<".","h","u","r","l">>
JsonFlag == <<"-","-","j","s","o","n">>
VeryVerboseFlag == <<"-","-","v","e","r","y","-","v","e","r","b","o","s","e">>
VariablesFileFlag == <<"-","-","v","a","r","i","a","b","l","e","s","-","f","i","l","e">>
\* path.join(dataDir, "collections") and path.join(dataDir, "environments")
COLLECTIONS_DIR == <<"d","a","t","a","/","c","o","l","l","e","c","t","i","o","n","s">>
ENVIRONMENTS_DIR == <<"d","a","t","a","/","e","n","v","i","r","o","n","m","e","n","t","s">>

pathJoin(dir, name) == dir \o <<"/">> \o name

\* what the runner writes to its standard output
\* {"entries":[]}
EmptyTraceText ==
    <<"{","\"","e","n","t","r","i","e","s","\"",":","[","]","}">>
\* {"entries":[{"calls":[{"response":{"status":200,"headers":[]}}],"asserts":[{"line":2,"success":true}]}]}
OneEntryTraceText ==
    <<"{","\"","e","n","t","r","i","e","s","\"",":","[","{","\"","c","a","l","l","s","\"",":","[","{","\"","r","e","s","p","o","n","s","e","\"",":","{","\"","s","t","a","t","u","s","\"",":","2","0","0",",","\"","h","e","a","d","e","r","s","\"",":","[","]","}","}","]",",","\"","a","s","s","e","r","t","s","\"",":","[","{","\"","l","i","n","e","\"",":","2",",","\"","s","u","c","c","e","s","s","\"",":","t","r","u","e","}","]","}","]","}">>
\* the same cut off after 40 characters
TruncatedTraceText == SubSeq(OneEntryTraceText, 1, 40)
NotJsonText == <<"o","o","p","s">>

\* JSON.parse on the texts above: the value of a text that is JSON
JsonDocuments ==
    { [text |-> EmptyTraceText, value |-> [entries |-> Some(<<>>)]],
      [text |-> OneEntryTraceText,
       value |-> [entries |-> Some(<<
           [calls |-> Some(<<[response |-> Some([status |-> Some(200),
                                                 headers |-> Some(<<>>)])]>>),
            asserts |-> Some(<<[line |-> 2, success |-> TRUE]>>)]>>)]] }

\* let jsonOutput = null; try { jsonOutput = JSON.parse(stdout) } catch {}
jsonOutputOf(stdout) ==
    IF \E d \in JsonDocuments : d.text = stdout
    THEN Some((CHOOSE d \in JsonDocuments : d.text = stdout).value)
    ELSE None

\* what the runner writes to its standard output and to its standard error
Stdouts == {<<>>, NotJsonText, EmptyTraceText, OneEntryTraceText, TruncatedTraceText}
ProcessStderrs ==
    {<<>>, joinLines(<<ResponseBodyMarker, <<"*"," ","a">>, Star>>), <<"e","r","r","o","r",":"," ","H","t","t","p"," ","c","o","n","n","e","c","t","i","o","n">>}

SpawnENOENT == <<"s","p","a","w","n"," ","h","u","r","l"," ","E","N","O","E","N","T">>
CommandFailed == <<"C","o","m","m","a","n","d"," ","f","a","i","l","e","d",":"," ","h","u","r","l">>
MaxBufferExceeded == <<"s","t","d","o","u","t"," ","m","a","x","B","u","f","f","e","r"," ","l","e","n","g","t","h"," ","e","x","c","e","e","d","e","d">>
InvalidArgument == <<"i","n","v","a","l","i","d"," ","a","r","g","u","m","e","n","t">>

\* how execFileAsync("hurl", args, {timeout, maxBuffer}) ends: resolved with
\* stdout and stderr, or rejected with an error. The error of a process that
\* failed carries what the process wrote, "" for one that wrote nothing or did
\* not start, and a message; anything else thrown carries neither.
Outcomes ==
    {[kind |-> "exit 0", stdout |-> Some(o), stderr |-> Some(e), message |-> None] :
         o \in Stdouts, e \in ProcessStderrs}
    \cup {[kind |-> "not found", stdout |-> Some(<<>>), stderr |-> Some(<<>>),
           message |-> Some(SpawnENOENT)]}
    \cup {[kind |-> k, stdout |-> Some(o), stderr |-> Some(e), message |-> Some(CommandFailed)] :
              k \in {"exit 1", "timeout"}, o \in Stdouts, e \in ProcessStderrs}
    \cup {[kind |-> "maxBuffer", stdout |-> Some(TruncatedTraceText), stderr |-> Some(e),
           message |-> Some(MaxBufferExceeded)] : e \in ProcessStderrs}
    \cup {[kind |-> "thrown", stdout |-> None, stderr |-> None, message |-> m] :
              m \in {None, Some(InvalidArgument)}}

\* the time a run that ended well took: Date.now() - startTime
Durations == {7}

\* the RunResult of the catch branch that does not look at error.stdout
runResultWithoutTrace(outcome, duration) ==
    IF outcome.kind = "exit 0"
    THEN [success |-> TRUE, duration |-> duration,
          json |-> jsonOutputOf(outcome.stdout[1]),
          stdout |-> outcome.stdout[1], stderr |-> outcome.stderr[1]]
    ELSE [success |-> FALSE, duration |-> 0,
          json |-> None,
          stdout |-> IF outcome.stdout # None THEN outcome.stdout[1] ELSE <<>>,
          stderr |-> IF outcome.stderr # None THEN outcome.stderr[1]
                     ELSE IF outcome.message # None THEN outcome.message[1]
                     ELSE UnknownError]

\* the RunResult that does not guard JSON.parse: the text itself for no JSON
runResultUnparsed(outcome, duration) ==
    [runResultWithoutTrace(outcome, duration) EXCEPT
        !.json = IF outcome.stdout = None \/ outcome.stdout[1] = <<>> THEN None
                 ELSE IF jsonOutputOf(outcome.stdout[1]) # None
                      THEN jsonOutputOf(outcome.stdout[1])
                      ELSE Some([text |-> outcome.stdout[1], entries |-> None])]

\* POST /api/run from its try on: the RunResult sent for the way the runner ended
runResultOf(outcome, duration) ==
    IF outcome.kind = "exit 0"
    THEN [success |-> TRUE, duration |-> duration,
          json |-> jsonOutputOf(outcome.stdout[1]),
          stdout |-> outcome.stdout[1], stderr |-> outcome.stderr[1]]
    ELSE [success |-> FALSE, duration |-> 0,
          json |-> IF outcome.stdout # None /\ outcome.stdout[1] # <<>>
                   THEN jsonOutputOf(outcome.stdout[1]) ELSE None,
          stdout |-> IF outcome.stdout # None THEN outcome.stdout[1] ELSE <<>>,
          stderr |-> IF outcome.stderr # None THEN outcome.stderr[1]
                     ELSE IF outcome.message # None THEN outcome.message[1]
                     ELSE UnknownError]

\* the arguments POST /api/run builds; none when an environment is named and
\* neither of its files is there
runArgsSecretsFirst(file, environment, dir) ==
    LET args == <<JsonFlag, VeryVerboseFlag, pathJoin(COLLECTIONS_DIR, file \o DotHurl)>>
    IN  IF environment = None \/ environment[1] = <<>> THEN Some(args)
        ELSE LET envFile == environment[1] \o DotEnv
                 secretsFile == environment[1] \o DotSecretsEnv
                 withSecrets == IF secretsFile \in dir
                                THEN args \o <<VariablesFileFlag,
                                               pathJoin(ENVIRONMENTS_DIR, secretsFile)>>
                                ELSE args
                 withEnv == IF envFile \in dir
                            THEN withSecrets \o <<VariablesFileFlag,
                                                  pathJoin(ENVIRONMENTS_DIR, envFile)>>
                            ELSE withSecrets
             IN  IF envFile \notin dir /\ secretsFile \notin dir THEN None
                 ELSE Some(withEnv)

runArgs(file, environment, dir) ==
    LET args == <<JsonFlag, VeryVerboseFlag, pathJoin(COLLECTIONS_DIR, file \o DotHurl)>>
    IN  IF environment = None \/ environment[1] = <<>> THEN Some(args)
        ELSE LET envFile == environment[1] \o DotEnv
                 secretsFile == environment[1] \o DotSecretsEnv
                 withEnv == IF envFile \in dir
                            THEN args \o <<VariablesFileFlag,
                                           pathJoin(ENVIRONMENTS_DIR, envFile)>>
                            ELSE args
                 withSecrets == IF secretsFile \in dir
                                THEN withEnv \o <<VariablesFileFlag,
                                                  pathJoin(ENVIRONMENTS_DIR, secretsFile)>>
                                ELSE withEnv
             IN  IF envFile \notin dir /\ secretsFile \notin dir THEN None
                 ELSE Some(withSecrets)

\* names of request files and of environments in the body of a request
Dev == <<"d","e","v">>
Prod == <<"p","r","o","d">>
Qa == <<"q","a">>
RequestFiles == { <<>>, <<"a">> }
RequestEnvironments == {None, Some(<<>>), Some(Dev), Some(Prod), Some(Qa)}

\* files of the environments directory before the server starts: an environment
\* with both files, and the secrets of one whose shared file is not there
EnvFileNames == {Dev \o DotEnv, Dev \o DotSecretsEnv, Prod \o DotSecretsEnv}

respond(status, body) == answer' = Some([status |-> status, body |-> body])

\* POST /api/run
PostRun ==
    /\ UNCHANGED <<editorContent, savedContent, written, edits, clientRun, envDir, fileVars>>
    /\ \E file \in RequestFiles, environment \in RequestEnvironments, found \in BOOLEAN :
           /\ req' = Some([route |-> "POST /api/run", file |-> file,
                            environment |-> environment, found |-> found])
           /\ IF file = <<>>
              THEN respond(400, [error |-> "file is required"]) /\ invocation' = None
              ELSE IF ~found
              THEN respond(404, [error |-> "Hurl file not found"]) /\ invocation' = None
              ELSE IF runArgs(file, environment, envDir) = None
              THEN respond(404, [error |-> "Environment file not found"]) /\ invocation' = None
              ELSE \E outcome \in Outcomes, duration \in Durations :
                       /\ invocation' = Some([args |-> runArgs(file, environment, envDir)[1],
                                              outcome |-> outcome])
                       /\ respond(200, runResultOf(outcome, duration))

\* f.replace(/\.env$/, "")
withoutDotEnv(f) == IF endsWith(f, DotEnv) THEN SubSeq(f, 1, Len(f) - Len(DotEnv)) ELSE f

\* the names GET /api/environments answers with for the files readdir returned
environmentNames(files) ==
    LET envFiles == SelectSeq(files, LAMBDA f : endsWith(f, DotEnv))
    IN  [i \in 1..Len(envFiles) |-> withoutDotEnv(envFiles[i])]

\* fs.readdir: the files of a directory, in an order the file system chooses
readdir(dir) ==
    {files \in [1..Cardinality(dir) -> dir] :
         \A i, j \in 1..Cardinality(dir) : i # j => files[i] # files[j]}

\* GET /api/environments
GetEnvironments ==
    /\ req' = Some([route |-> "GET /api/environments"])
    /\ invocation' = None
    /\ \E files \in readdir(envDir) : respond(200, environmentNames(files))
    /\ UNCHANGED <<editorContent, savedContent, written, edits, clientRun, envDir, fileVars>>

\* name.replace(/[^a-zA-Z0-9_-]/g, "_")
SafeChars ==
    {LowerCase[i] : i \in 1..26} \cup {UpperCase[i] : i \in 1..26}
        \cup {"0","1","2","3","4","5","6","7","8","9","_","-"}
safeName(name) == [i \in 1..Len(name) |-> IF name[i] \in SafeChars THEN name[i] ELSE "_"]

\* the body of POST /api/environments: a name, and the keys of secrets if given
NewEnvironmentNames == { <<>>, Dev, <<"q",".","a">> }
SecretsInputs == {None, Some({}), Some({"TOKEN"})}

\* POST /api/environments
PostEnvironment ==
    /\ invocation' = None
    /\ UNCHANGED <<editorContent, savedContent, written, edits, clientRun, fileVars>>
    /\ \E name \in NewEnvironmentNames, secrets \in SecretsInputs :
           /\ req' = Some([route |-> "POST /api/environments", name |-> name,
                            secrets |-> secrets])
           /\ IF name = <<>>
              THEN respond(400, [error |-> "name is required"]) /\ UNCHANGED envDir
              ELSE IF safeName(name) \o DotEnv \in envDir
              THEN respond(409, [error |-> "Environment already exists"]) /\ UNCHANGED envDir
              ELSE /\ envDir' = envDir \cup {safeName(name) \o DotEnv}
                                     \cup IF secrets # None /\ secrets[1] # {}
                                          THEN {safeName(name) \o DotSecretsEnv}
                                          ELSE {}
                   /\ respond(201, [name |-> safeName(name)])

(***************************************************************************)
(* App.tsx                                                                 *)
(***************************************************************************)
\* the request files of the collection, by name
FileNames == {"default", "users", "bearer", "both", "bare", "noresponse", "orphan"}
StoredFiles ==
    ("default" :> Some(DefaultContent)) @@ ("users" :> Some(UsersExample))
    @@ ("bearer" :> Some(BearerExample)) @@ ("both" :> Some(BothSections))
    @@ ("bare" :> Some(BareHttp)) @@ ("noresponse" :> Some(NoResponse))
    @@ ("orphan" :> Some(OrphanLine))

\* the files opened beside the response panel
PanelNames == {"default", "bare"}

\* no sections, no file in a section
NoMetadata == [sections |-> <<>>, fileGroups |-> <<>>]

\* handleSelectFile: the stored text becomes the editor's content and the
\* response panel is cleared; api.readFile throws for a file that is not there
selectFile(name) ==
    /\ collection[name] # None
    /\ activeFile' = Some(name)
    /\ editorContent' = collection[name][1]
    /\ savedContent' = collection[name][1]
    /\ runResult' = None
    /\ executed' = None
    /\ UNCHANGED <<isRunning, runs, serverVars, collection, metadata>>

\* a file opened in the visual editor
SelectFile ==
    /\ written' = None
    /\ edits' = 0
    /\ \E name \in FileNames : selectFile(name)

\* a file opened beside the response panel
OpenFile ==
    /\ written' = None
    /\ edits' = 0
    /\ \E name \in PanelNames : selectFile(name)

\* PUT /api/files/:name as api.updateFile sees it: the file is written, or the
\* request fails and the file is as it was
updateFile(name, content, ok) ==
    collection' = IF ok THEN [collection EXCEPT ![name] = Some(content)] ELSE collection

\* handleRun up to its first await, for a text that is saved: the run is
\* announced and api.runHurl is called, the runner runs the stored file. For a
\* text with unsaved changes: api.updateFile is called with the text
handleRun(how) ==
    IF editorContent # savedContent
    THEN /\ \E ok \in BOOLEAN :
                /\ updateFile(activeFile[1], editorContent, ok)
                /\ runs' = Append(runs, [pc |-> IF ok THEN "saving" ELSE "save fails",
                                         how |-> how, file |-> activeFile[1],
                                         content |-> editorContent, ran |-> None])
         /\ UNCHANGED <<editorContent, savedContent, written, edits, runResult,
                        isRunning, executed, serverVars, activeFile, metadata>>
    ELSE /\ runs' = Append(runs, [pc |-> "running", how |-> how, file |-> activeFile[1],
                                  content |-> editorContent,
                                  ran |-> collection[activeFile[1]]])
         /\ isRunning' = TRUE
         /\ runResult' = None
         /\ executed' = None
         /\ UNCHANGED <<editorContent, savedContent, written, edits, serverVars, fileVars>>

\* a Run button that is never disabled
ClickRunAlways ==
    /\ activeFile # None
    /\ Len(runs) < MaxRuns
    /\ handleRun("button")

\* the Run button, disabled while isRunning
ClickRun ==
    /\ ~isRunning
    /\ activeFile # None
    /\ Len(runs) < MaxRuns
    /\ handleRun("button")

\* Mod-Enter in the raw editor: onRunRef.current() is called whatever isRunning is
PressModEnter ==
    /\ activeFile # None
    /\ Len(runs) < MaxRuns
    /\ handleRun("key")

\* the editor's onChange, setEditorContent: the text becomes another one
ChangeText ==
    /\ \E content \in PanelFiles :
           /\ content # editorContent
           /\ editorContent' = content
    /\ UNCHANGED <<savedContent, written, edits, clientRun, serverVars, fileVars>>

\* handleRun after api.updateFile has resolved: the text the handler was called
\* with is the saved one, the run is announced and api.runHurl is called
AutoSaved ==
    \E k \in 1..Len(runs) :
        /\ runs[k].pc = "saving"
        /\ savedContent' = runs[k].content
        /\ isRunning' = TRUE
        /\ runResult' = None
        /\ executed' = None
        /\ runs' = [runs EXCEPT ![k].pc = "running", ![k].ran = collection[runs[k].file]]
        /\ UNCHANGED <<editorContent, written, edits, serverVars, fileVars>>

\* handleRun after api.updateFile has thrown: the handler ends there
AutoSaveFails ==
    \E k \in 1..Len(runs) :
        /\ runs[k].pc = "save fails"
        /\ runs' = removeAt(runs, k)
        /\ UNCHANGED <<editorContent, savedContent, written, edits, runResult, isRunning,
                       executed, serverVars, fileVars>>

\* handleRun k after its await of api.runHurl: the result is shown
runEnds(k, result) ==
    /\ runResult' = Some(result)
    /\ executed' = Some([file |-> runs[k].file, text |-> runs[k].ran])
    /\ isRunning' = FALSE
    /\ runs' = removeAt(runs, k)
    /\ UNCHANGED <<editorContent, savedContent, written, edits, serverVars, fileVars>>

\* api.runHurl has resolved
RunReturns ==
    \E k \in 1..Len(runs) :
        /\ runs[k].pc = "running"
        /\ runs[k].ran # None
        /\ \E result \in RunResults : runEnds(k, result)

\* api.runHurl has thrown: an Error, or anything else
RunThrows ==
    \E k \in 1..Len(runs) :
        /\ runs[k].pc = "running"
        /\ \E message \in ErrorMessages \cup {UnknownError} :
               runEnds(k, [json |-> None, stderr |-> message])

\* api.runHurl has ended, with a result or with an Error; with an Error for a
\* file that was not there
RunSettles ==
    \E k \in 1..Len(runs) :
        /\ runs[k].pc = "running"
        /\ \E result \in {[json |-> TwoHopTrace, stderr |-> TwoHopStderr],
                           [json |-> None, stderr |-> UnknownError]} :
               /\ runs[k].ran = None => result.json = None
               /\ runEnds(k, result)

\* handleSave: the text of the editor is written to the open file
handleSave ==
    /\ activeFile # None
    /\ updateFile(activeFile[1], editorContent, TRUE)
    /\ savedContent' = editorContent
    /\ UNCHANGED <<editorContent, written, edits, clientRun, serverVars, activeFile, metadata>>

\* handleDeleteFile without its update of the metadata: api.deleteFile throws
\* for a file that is not there
handleDeleteFile ==
    \E name \in PanelNames :
        /\ collection[name] # None
        /\ collection' = [collection EXCEPT ![name] = None]
        /\ IF activeFile = Some(name)
           THEN /\ activeFile' = None
                /\ editorContent' = <<>>
                /\ savedContent' = <<>>
                /\ runResult' = None
                /\ executed' = None
           ELSE UNCHANGED <<activeFile, editorContent, savedContent, runResult, executed>>
        /\ UNCHANGED <<written, edits, isRunning, runs, serverVars, metadata>>

(***************************************************************************)
(* Sidebar: sections, the section of each file, renaming a file            *)
(***************************************************************************)
\* the metadata document: the state of App and metadata.json, which every
\* change of the one writes to the other (requests are handled when made)
SectionIds == {"s1", "s2"}
NewSectionName == <<"N","e","w"," ","S","e","c","t","i","o","n">>
SectionNameInputs == { <<"A">>, <<"A"," ">>, <<" ">> }
MaxSections == 2

\* file names of the sidebar and what is typed into the rename dialog
SidebarFiles == { <<"a">>, <<"b">> }
RenameInputs == { <<"a">>, <<"b">>, <<"c"," ","d">>, <<" ">> }
SidebarNames ==
    SidebarFiles \cup {safeName(trim(n)) : n \in {i \in RenameInputs : trim(i) # <<>>}}

\* the files the sidebar lists
files == {n \in DOMAIN collection : collection[n] # None}

sectionIds(m) == {m.sections[k].id : k \in 1..Len(m.sections)}

onUpdateMetadata(updated) == metadata' = updated

handleCreateSection ==
    /\ Len(metadata.sections) < MaxSections
    /\ \E id \in SectionIds :
           onUpdateMetadata([metadata EXCEPT
               !.sections = Append(@, [id |-> id, name |-> NewSectionName])])
    /\ UNCHANGED <<editorContent, savedContent, written, edits, clientRun, serverVars,
                   activeFile, collection>>

commitRename ==
    /\ \E editingSectionId \in SectionIds, editingSectionName \in SectionNameInputs :
           IF trim(editingSectionName) = <<>>
           THEN UNCHANGED metadata
           ELSE onUpdateMetadata([metadata EXCEPT
                    !.sections = [k \in 1..Len(@) |->
                        IF @[k].id = editingSectionId
                        THEN [@[k] EXCEPT !.name = trim(editingSectionName)]
                        ELSE @[k]]])
    /\ UNCHANGED <<editorContent, savedContent, written, edits, clientRun, serverVars,
                   activeFile, collection>>

\* fileGroups without the files of the section
withoutSectionKeepingFiles(fileGroups, sectionId) == fileGroups
withoutSection(fileGroups, sectionId) ==
    [n \in {f \in DOMAIN fileGroups : fileGroups[f] # sectionId} |-> fileGroups[n]]

handleDeleteSection ==
    /\ \E sectionId \in sectionIds(metadata) :
           onUpdateMetadata([metadata EXCEPT
               !.sections = SelectSeq(@, LAMBDA sec : sec.id # sectionId),
               !.fileGroups = withoutSection(@, sectionId)])
    /\ UNCHANGED <<editorContent, savedContent, written, edits, clientRun, serverVars,
                   activeFile, collection>>

\* fileGroups[key] = value, and delete fileGroups[key]
setKey(fileGroups, key, value) ==
    [n \in DOMAIN fileGroups \cup {key} |-> IF n = key THEN value ELSE fileGroups[n]]
deleteKey(fileGroups, key) ==
    [n \in DOMAIN fileGroups \ {key} |-> fileGroups[n]]

handleMoveFile ==
    /\ \E fileName \in files, sectionId \in {None} \cup {Some(id) : id \in sectionIds(metadata)} :
           onUpdateMetadata([metadata EXCEPT
               !.fileGroups = IF sectionId # None
                              THEN setKey(@, fileName, sectionId[1])
                              ELSE deleteKey(@, fileName)])
    /\ UNCHANGED <<editorContent, savedContent, written, edits, clientRun, serverVars,
                   activeFile, collection>>

findIndex(sections, id) ==
    CHOOSE k \in 1..Len(sections) :
        sections[k].id = id /\ \A j \in 1..(k - 1) : sections[j].id # id

arrayMove(array, from, to) ==
    LET rest == SubSeq(array, 1, from - 1) \o SubSeq(array, from + 1, Len(array))
    IN  SubSeq(rest, 1, to - 1) \o <<array[from]>> \o SubSeq(rest, to, Len(rest))

handleDragEnd ==
    /\ \E active \in sectionIds(metadata), over \in sectionIds(metadata) :
           /\ active # over
           /\ onUpdateMetadata([metadata EXCEPT
                  !.sections = arrayMove(@, findIndex(@, active), findIndex(@, over))])
    /\ UNCHANGED <<editorContent, savedContent, written, edits, clientRun, serverVars,
                   activeFile, collection>>

\* PATCH /api/files/:name
PatchRoute == "PATCH /api/files/:name"
renamedGroups(fileGroups, oldName, safeNewName) ==
    deleteKey(setKey(fileGroups, safeNewName, fileGroups[oldName]), oldName)

PatchFile(oldName, newName) ==
    \E safeNewName \in {safeName(newName)} :
        /\ req' = Some([route |-> PatchRoute, name |-> oldName, newName |-> newName])
        /\ IF newName = <<>>
           THEN respond(400, [error |-> "newName is required"])
                /\ UNCHANGED <<collection, metadata>>
           ELSE IF collection[oldName] = None
           THEN respond(404, [error |-> "File not found"])
                /\ UNCHANGED <<collection, metadata>>
           ELSE IF oldName # safeNewName /\ collection[safeNewName] # None
           THEN respond(409, [error |-> "A file with that name already exists"])
                /\ UNCHANGED <<collection, metadata>>
           ELSE /\ collection' = IF oldName = safeNewName THEN collection
                                 ELSE [collection EXCEPT ![safeNewName] = collection[oldName],
                                                         ![oldName] = None]
                /\ metadata' = IF oldName \in DOMAIN metadata.fileGroups
                               THEN [metadata EXCEPT
                                        !.fileGroups = renamedGroups(@, oldName, safeNewName)]
                               ELSE metadata
                /\ respond(200, [oldName |-> oldName, newName |-> safeNewName])

\* the rename dialog confirmed, and App.handleRenameFile
handleRenameFile ==
    /\ \E renamingFile \in files, renameNewName \in RenameInputs :
           /\ trim(renameNewName) # <<>>
           /\ PatchFile(renamingFile, trim(renameNewName))
           /\ activeFile' = IF answer'[1].status = 200 /\ activeFile = Some(renamingFile)
                            THEN Some(answer'[1].body.newName)
                            ELSE activeFile
    /\ UNCHANGED <<editorContent, savedContent, written, edits, clientRun, envDir, invocation>>

(***************************************************************************)
(* Specifications                                                          *)
(***************************************************************************)
\* the raw editor: a text typed line by line, or pasted, into an empty document
TypingInit ==
    /\ activeFile = Some("new")
    /\ collection = ("new" :> Some(<<>>))
    /\ editorContent = <<>>
    /\ written = None
    /\ edits = 0
    /\ savedContent = editorContent
    /\ runResult = None
    /\ isRunning = FALSE
    /\ runs = <<>>
    /\ executed = None
    /\ metadata = NoMetadata
    /\ envDir = {}
    /\ invocation = None
    /\ answer = None
    /\ req = None

TypingNext == TypeRequestLine \/ PasteText \/ TypeLine \/ ClearText

TypingSpec == TypingInit /\ [][TypingNext]_vars

\* the visual editor: a stored file opened and edited field by field
VisualInit ==
    /\ activeFile \in {Some(name) : name \in FileNames}
    /\ collection = StoredFiles
    /\ editorContent = collection[activeFile[1]][1]
    /\ written = None
    /\ edits = 0
    /\ savedContent = editorContent
    /\ runResult = None
    /\ isRunning = FALSE
    /\ runs = <<>>
    /\ executed = None
    /\ metadata = NoMetadata
    /\ envDir = {}
    /\ invocation = None
    /\ answer = None
    /\ req = None

VisualNext ==
    \/ SelectFile
    \/ SetMethod \/ SetUrl
    \/ SetHeaderKey \/ SetHeaderValue \/ RemoveHeader \/ AddHeader
    \/ SetBody \/ RemoveBody \/ AddBody
    \/ SetResponseStatus
    \/ SetAssert \/ RemoveAssert \/ AddAssert

VisualSpec == VisualInit /\ [][VisualNext]_vars

\* the response panel: the open file run again and again
PanelInit ==
    /\ activeFile \in {Some(name) : name \in PanelNames}
    /\ collection = StoredFiles
    /\ editorContent = collection[activeFile[1]][1]
    /\ written = None
    /\ edits = 0
    /\ savedContent = editorContent
    /\ runResult = None
    /\ isRunning = FALSE
    /\ runs = <<>>
    /\ executed = None
    /\ metadata = NoMetadata
    /\ envDir = {}
    /\ invocation = None
    /\ answer = None
    /\ req = None

PanelNext == OpenFile \/ ClickRun \/ RunReturns \/ RunThrows

PanelSpec == PanelInit /\ [][PanelNext]_vars

\* runs of the open file, started by the button or the key while the text is
\* edited
RunInit == PanelInit

RunNext ==
    ChangeText \/ ClickRun \/ PressModEnter \/ AutoSaved \/ AutoSaveFails \/ RunSettles

RunSpec == RunInit /\ [][RunNext]_vars

\* the open file edited, saved, run, left for another file and deleted
AppInit ==
    /\ activeFile = Some("default")
    /\ collection = [name \in PanelNames |-> StoredFiles[name]]
    /\ editorContent = collection[activeFile[1]][1]
    /\ written = None
    /\ edits = 0
    /\ savedContent = editorContent
    /\ runResult = None
    /\ isRunning = FALSE
    /\ runs = <<>>
    /\ executed = None
    /\ metadata = NoMetadata
    /\ envDir = {}
    /\ invocation = None
    /\ answer = None
    /\ req = None

AppNext ==
    \/ OpenFile \/ ChangeText \/ handleSave \/ handleDeleteFile
    \/ ClickRun \/ PressModEnter \/ AutoSaved \/ AutoSaveFails \/ RunSettles

AppSpec == AppInit /\ [][AppNext]_vars

\* the sidebar: two files, one of them in the one section
SidebarInit ==
    /\ activeFile = Some(<<"a">>)
    /\ collection = [n \in SidebarNames |->
                        IF n \in SidebarFiles THEN Some(DefaultContent) ELSE None]
    /\ editorContent = DefaultContent
    /\ written = None
    /\ edits = 0
    /\ savedContent = editorContent
    /\ runResult = None
    /\ isRunning = FALSE
    /\ runs = <<>>
    /\ executed = None
    /\ metadata = [sections |-> <<[id |-> "s1", name |-> <<"A">>]>>,
                   fileGroups |-> [n \in {<<"a">>} |-> "s1"]]
    /\ envDir = {}
    /\ invocation = None
    /\ answer = None
    /\ req = None

SidebarNext ==
    \/ handleCreateSection \/ commitRename \/ handleDeleteSection
    \/ handleMoveFile \/ handleDragEnd \/ handleRenameFile

SidebarSpec == SidebarInit /\ [][SidebarNext]_vars

\* the server: requests handled one after the other
ServerInit ==
    /\ activeFile = Some("default")
    /\ collection = StoredFiles
    /\ editorContent = DefaultContent
    /\ written = None
    /\ edits = 0
    /\ savedContent = editorContent
    /\ runResult = None
    /\ isRunning = FALSE
    /\ runs = <<>>
    /\ executed = None
    /\ metadata = NoMetadata
    /\ envDir \in SUBSET EnvFileNames
    /\ invocation = None
    /\ answer = None
    /\ req = None

ServerNext == PostRun \/ GetEnvironments \/ PostEnvironment

ServerSpec == ServerInit /\ [][ServerNext]_vars

(***************************************************************************)
(* Claims about the parser and the serializer                              *)
(***************************************************************************)
\* the document the visual editor holds for the current text
request == parseHurl(editorContent)

\* C1 as stated: for every document d that parseHurl returns on some input text,
\* parseHurl(serializeHurl(d)) equals d in every field.
C1_RoundTrip == parseHurl(serializeHurl(request)) = request

\* C1 amended: parseHurl(serializeHurl(d)) equals d in every field, except that
\* an empty responseStatus of a d that has a capture or an assert comes back as
\* "*", the token the serializer writes for it.
C1_RoundTripUpToAnyStatus ==
    parseHurl(serializeHurl(request)) =
        [request EXCEPT !.responseStatus =
            IF request.responseStatus = <<>>
               /\ (Len(request.captures) > 0 \/ Len(request.asserts) > 0)
            THEN Star ELSE request.responseStatus]

\* a text with a bare HTTP line and an assert, whose empty status comes back "*",
\* beside a header that comes back unchanged
C1_Witness ==
    /\ request.responseStatus = <<>>
    /\ Len(request.asserts) > 0
    /\ parseHurl(serializeHurl(request)).responseStatus = Star
    /\ parseHurl(serializeHurl(request)).headers = request.headers
    /\ request.headers # <<>>

\* C2 as stated: for every HurlRequest d the visual editor serializes, whatever
\* the values of its fields, serializeHurl(parseHurl(serializeHurl(d))) is the
\* same string as serializeHurl(d).
C2_IdempotentReserialization ==
    written # None =>
        serializeHurl(parseHurl(serializeHurl(written[1]))) = serializeHurl(written[1])

\* the tests of the header block, on the line without its surrounding white space
IsHeaderShaped(line) ==
    LET t == trim(line)
    IN  /\ t # <<>>
        /\ ~startsWith(t, HTTP)
        /\ \E k \in 1..Len(t) : t[k] = ":"
        /\ t[1] \notin {"{", "["}

\* the length of the maximal run of header-shaped lines from line 2 on
HeaderRun(lines) ==
    CHOOSE n \in 0..(Len(lines) - 1) :
        /\ \A j \in 2..(n + 1) : IsHeaderShaped(lines[j])
        /\ n + 2 <= Len(lines) => ~IsHeaderShaped(lines[n + 2])

\* a line cut at its first colon, both parts trimmed
SplitAtFirstColon(line) ==
    LET c == CHOOSE k \in 1..Len(line) :
                 line[k] = ":" /\ \A j \in 1..(k - 1) : line[j] # ":"
    IN  [key |-> trim(SubSeq(line, 1, c - 1)),
         value |-> trim(SubSeq(line, c + 1, Len(line)))]

Authorization == <<"A","u","t","h","o","r","i","z","a","t","i","o","n">>
BearerAbc == <<"B","e","a","r","e","r"," ","a","b","c">>
JsonA1 == <<"{","\"","a","\"",":"," ","1","}">>

\* C3: the headers are exactly the maximal run of lines directly after the
\* request line that are non-blank, do not start with HTTP, contain a colon and
\* do not start with { or [, each split at its first colon into trimmed key and
\* value; the Bearer example has one header and the JSON line as its body.
C3_HeaderBlock ==
    LET lines == contentLines(editorContent)
    IN  /\ Len(lines) >= 1 =>
               request.headers =
                   [j \in 1..HeaderRun(lines) |-> SplitAtFirstColon(lines[j + 1])]
        /\ editorContent = BearerExample =>
               /\ request.headers = <<[key |-> Authorization, value |-> BearerAbc]>>
               /\ request.body = JsonA1

\* a header directly followed by a JSON line that holds a colon
C3_Witness ==
    LET lines == contentLines(editorContent)
    IN  /\ Len(lines) >= 3
        /\ HeaderRun(lines) = 1
        /\ startsWith(trim(lines[3]), <<"{">>)
        /\ indexOf(lines[3], ":") >= 0
        /\ Len(request.headers) = 1

IsString(s) == DOMAIN s = 1..Len(s) /\ \A k \in 1..Len(s) : s[k] \in STRING

IsHurlRequest(d) ==
    /\ DOMAIN d = {"method", "url", "headers", "body", "responseStatus",
                   "captures", "asserts"}
    /\ IsString(d.method) /\ IsString(d.url) /\ IsString(d.body)
    /\ IsString(d.responseStatus)
    /\ \A k \in 1..Len(d.headers) :
           /\ DOMAIN d.headers[k] = {"key", "value"}
           /\ IsString(d.headers[k].key) /\ IsString(d.headers[k].value)
    /\ \A k \in 1..Len(d.captures) : IsString(d.captures[k])
    /\ \A k \in 1..Len(d.asserts) : IsString(d.asserts[k])

\* C4: parseHurl returns a document for every text; with the first line empty or
\* missing the method is GET and the url empty, and a field the text has no line
\* for is empty.
C4_Total ==
    LET lines == contentLines(editorContent)
        noHttp == \A j \in 2..Len(lines) : ~startsWith(trim(lines[j]), HTTP)
    IN  /\ IsHurlRequest(request)
        /\ (Len(lines) = 0 \/ trim(lines[1]) = <<>>) =>
               request.method = GET /\ request.url = <<>>
        /\ Len(lines) <= 1 =>
               /\ request.headers = <<>> /\ request.body = <<>>
               /\ request.responseStatus = <<>>
               /\ request.captures = <<>> /\ request.asserts = <<>>
        /\ noHttp =>
               /\ request.responseStatus = <<>>
               /\ request.captures = <<>> /\ request.asserts = <<>>

\* a blank first line followed by further lines: the method defaults to GET
C4_Witness ==
    LET lines == contentLines(editorContent)
    IN  /\ Len(lines) >= 2
        /\ trim(lines[1]) = <<>>
        /\ request.method = GET
        /\ request.body # <<>>

(***************************************************************************)
(* The layout of the format grammar                                        *)
(***************************************************************************)
IsTrimmed(s) == s # <<>> /\ trim(s) = s

IsUpperCaseWord(s) ==
    s # <<>> /\ \A k \in 1..Len(s) : \E u \in 1..26 : UpperCase[u] = s[k]

\* METHOD URL
RequestLineShape(line) ==
    \E k \in 2..(Len(line) - 1) :
        /\ line[k] = " "
        /\ IsUpperCaseWord(SubSeq(line, 1, k - 1))
        /\ IsTrimmed(SubSeq(line, k + 1, Len(line)))

IsLetter(c) == \E u \in 1..26 : UpperCase[u] = c \/ LowerCase[u] = c

\* Key: Value, the key a word that starts with a letter
HeaderLineShape(line) ==
    \E k \in 2..(Len(line) - 2) :
        /\ line[k] = ":" /\ line[k + 1] = " "
        /\ IsLetter(line[1])
        /\ \A j \in 1..(k - 1) : line[j] # ":" /\ ~IsWhiteSpace(line[j])
        /\ IsTrimmed(SubSeq(line, k + 2, Len(line)))

\* HTTP <status>
StatusLineShape(line) ==
    /\ startsWith(line, HTTP \o <<" ">>)
    /\ Len(line) > 5
    /\ \A k \in 6..Len(line) : ~IsWhiteSpace(line[k])

\* what the parser needs of a header line beyond its shape
HeaderLineKept(line) == ~startsWith(line, HTTP)

\* what the parser needs of a body beyond its being there
BodyKept(lines) ==
    /\ \A k \in 1..Len(lines) : ~startsWith(trim(lines[k]), HTTP)
    /\ trim(lines[Len(lines)]) # <<>>

\* what the parser needs of the lines of a section
SectionKept(lines) ==
    /\ Len(lines) >= 1
    /\ \A k \in 1..Len(lines) : trim(lines[k]) = lines[k]

\* lines from..Len(lines): an optional [Captures] section, then an optional
\* [Asserts] section
SectionsLayout(lines, from, strict) ==
    \E c \in from..(Len(lines) + 1) :
        LET caps == SubSeq(lines, from, c - 1)
            asrt == SubSeq(lines, c, Len(lines))
            NoMarker(section) ==
                \A k \in 1..Len(section) :
                    section[k] \notin {CapturesMarker, AssertsMarker}
        IN  /\ caps # <<>> => /\ caps[1] = CapturesMarker
                              /\ NoMarker(Tail(caps))
                              /\ strict => SectionKept(Tail(caps))
            /\ asrt # <<>> => /\ asrt[1] = AssertsMarker
                              /\ NoMarker(Tail(asrt))
                              /\ strict => SectionKept(Tail(asrt))

\* lines from..Len(lines): HTTP <status> and the sections
ResponseLayout(lines, from, strict) ==
    /\ from <= Len(lines)
    /\ StatusLineShape(lines[from])
    /\ SectionsLayout(lines, from + 1, strict)

\* lines from..to: a body, any lines but a response line
BodyLayout(lines, from, to, strict) ==
    /\ from <= to
    /\ \A k \in from..to : ~StatusLineShape(lines[k])
    /\ strict => BodyKept(SubSeq(lines, from, to))

\* the request line, h header lines, then nothing, or a blank line and a body,
\* or a blank line and the response part, or both in this order
Layout(lines, strict) ==
    /\ Len(lines) >= 1
    /\ RequestLineShape(lines[1])
    /\ \E h \in 0..(Len(lines) - 1) :
           /\ \A j \in 2..(h + 1) :
                  HeaderLineShape(lines[j]) /\ (strict => HeaderLineKept(lines[j]))
           /\ \/ h + 1 = Len(lines)
              \/ /\ h + 2 <= Len(lines)
                 /\ lines[h + 2] = <<>>
                 /\ \/ BodyLayout(lines, h + 3, Len(lines), strict)
                    \/ ResponseLayout(lines, h + 3, strict)
                    \/ \E b \in (h + 4)..(Len(lines) - 1) :
                           /\ lines[b] = <<>>
                           /\ BodyLayout(lines, h + 3, b - 1, strict)
                           /\ ResponseLayout(lines, b + 1, strict)

\* the text with exactly one newline at its end
WithOneNewline(content) == joinLines(contentLines(content)) \o <<NL>>

UsersUrl == <<"h","t","t","p","s",":","/","/","a","p","i",".","e","x","a","m","p","l","e",".","c","o","m","/","u","s","e","r","s">>
ContentType == <<"C","o","n","t","e","n","t","-","T","y","p","e">>
ApplicationJson == <<"a","p","p","l","i","c","a","t","i","o","n","/","j","s","o","n">>
JsonNameA == <<"{","\"","n","a","m","e","\"",":"," ","\"","a","\"","}">>
JsonpathIdExists == <<"j","s","o","n","p","a","t","h"," ","\"","$",".","i","d","\""," ","e","x","i","s","t","s">>

UsersDocument ==
    [method |-> POST, url |-> UsersUrl,
     headers |-> <<[key |-> ContentType, value |-> ApplicationJson]>>,
     body |-> JsonNameA, responseStatus |-> <<"2","0","1">>,
     captures |-> <<>>, asserts |-> <<JsonpathIdExists>>]

\* C5 as stated: for a text in the layout of the format grammar (METHOD URL,
\* Key: Value lines, a blank line and a body, a blank line and HTTP <status>,
\* then [Captures] and/or [Asserts]) serializeHurl(parseHurl(text)) is that text
\* ending in exactly one newline.
C5_LayoutRoundTrip ==
    Layout(contentLines(editorContent), FALSE) =>
        serializeHurl(request) = WithOneNewline(editorContent)

\* C5 amended: the same, provided no header name starts with HTTP, no body line,
\* trimmed, starts with HTTP, the last body line is not blank, and every section
\* has at least one line and only lines free of surrounding white space; the
\* users example parses to the document the spec lists and serializes back byte
\* for byte.
C5_KeptLayoutRoundTrip ==
    /\ Layout(contentLines(editorContent), TRUE) =>
           serializeHurl(request) = WithOneNewline(editorContent)
    /\ editorContent = UsersExample =>
           /\ request = UsersDocument
           /\ serializeHurl(request) = UsersExample

\* a typed text with a header, a body and a response line, in the layout and
\* serialized back unchanged
C5_Witness ==
    LET lines == contentLines(editorContent)
    IN  /\ Layout(lines, TRUE)
        /\ Len(request.headers) >= 1
        /\ request.body # <<>>
        /\ serializeHurl(request) = WithOneNewline(editorContent)

(***************************************************************************)
(* Claims about the visual editor                                          *)
(***************************************************************************)
\* the index of the first line from `from` on that satisfies Test, 0 if none
FirstLineAt(lines, from, Test(_)) ==
    LET hits == {k \in from..Len(lines) : Test(lines[k])}
    IN  IF hits = {} THEN 0 ELSE CHOOSE k \in hits : \A j \in hits : k <= j

\* C6: after any sequence of visual-editor updates, when the document has at
\* least one capture and at least one assert, the serialized text has the
\* [Captures] marker line before the [Asserts] marker line, both after the HTTP
\* line.
C6_SectionOrder ==
    (/\ written # None
     /\ Len(written[1].captures) > 0
     /\ Len(written[1].asserts) > 0) =>
        LET lines == splitLines(editorContent)
            http  == FirstLineAt(lines, 1, LAMBDA l : startsWith(trim(l), HTTP))
            caps  == FirstLineAt(lines, http + 1, LAMBDA l : l = CapturesMarker)
            asrt  == FirstLineAt(lines, http + 1, LAMBDA l : l = AssertsMarker)
        IN  0 < http /\ http < caps /\ caps < asrt

\* two updates made to a file that lists [Asserts] before [Captures]
C6_Witness ==
    /\ written # None
    /\ edits = 2
    /\ Len(written[1].captures) > 0
    /\ Len(written[1].asserts) > 1

\* C7: serializeHurl emits every header in stored order, blank ones included,
\* and for every parsed document d, d with a header of empty key and value
\* appended comes back from serializeHurl then parseHurl with d's headers in the
\* same order followed by exactly one empty header.
C7_EmptyHeaderSurvives ==
    /\ written # None =>
           \A k \in 1..Len(written[1].headers) :
               splitLines(editorContent)[k + 1] = headerLine(written[1].headers[k])
    /\ parseHurl(serializeHurl(
           [request EXCEPT !.headers = Append(request.headers, EmptyHeader)])).headers
       = Append(request.headers, EmptyHeader)

\* the Add Header button pressed on a document with a header and a body: the new
\* row is in the text and in the document parsed from it
C7_Witness ==
    /\ written # None
    /\ Len(written[1].headers) = 2
    /\ written[1].headers[2] = EmptyHeader
    /\ written[1].headers[1] # EmptyHeader
    /\ written[1].body # <<>>
    /\ request.headers = written[1].headers

(***************************************************************************)
(* Claims about the response panel                                         *)
(***************************************************************************)
\* the RunResult the panel shows, and what it extracts from it
shown == runResult[1]
info == extractResponseInfo(shown)
stderrLines == splitLines(shown.stderr)

Last(seq) == seq[Len(seq)]
Least(S) == CHOOSE k \in S : \A j \in S : k <= j
Greatest(S) == CHOOSE k \in S : \A j \in S : k >= j

\* C8: when the JSON trace has at least one entry, extractResponseInfo returns
\* the status and headers of the last call of the last entry and the asserts
\* list of the last entry (none when the entry has no list); a missing call or
\* response gives status 0 and no headers.
C8_LastCallOfLastEntry ==
    (runResult # None /\ hasEntries(shown.json)) =>
        LET entry == Last(shown.json[1].entries[1])
            hasResponse ==
                /\ entry.calls # None
                /\ entry.calls[1] # <<>>
                /\ Last(entry.calls[1]).response # None
        IN  /\ info.asserts = (IF entry.asserts = None THEN <<>> ELSE entry.asserts[1])
            /\ hasResponse =>
                   /\ Some(info.status) = Last(entry.calls[1]).response[1].status
                   /\ Some(info.headers) = Last(entry.calls[1]).response[1].headers
            /\ ~hasResponse => info.status = 0 /\ info.headers = <<>>

\* a trace of two entries whose last entry made two calls: the panel shows the
\* 200 and the two headers of the last call and the three asserts of the last
\* entry, the 302 of the first call and the assert of the first entry nowhere
C8_Witness ==
    /\ runResult # None
    /\ hasEntries(shown.json)
    /\ Len(shown.json[1].entries[1]) = 2
    /\ shown.json[1].entries[1][1].asserts = Some(<<[line |-> 2, success |-> TRUE]>>)
    /\ Last(shown.json[1].entries[1]).calls = Some(<<call302, call200>>)
    /\ info.status = 200
    /\ Len(info.headers) = 2
    /\ Len(info.asserts) = 3

IsBodyEnd(line) == line = Star \/ startsWith(line, TimingsMarker)
Unstarred(line) == IF startsWith(line, StarSpace) THEN substringFrom(line, 2) ELSE line

\* the lines after line k up to, not including, the first later line that ends
\* a body
BlockAfter(lines, k) ==
    LET ends == {j \in (k + 1)..Len(lines) : IsBodyEnd(lines[j])}
    IN  SubSeq(lines, k + 1, IF ends = {} THEN Len(lines) ELSE Least(ends) - 1)

Unstar(lines) == [k \in 1..Len(lines) |-> Unstarred(lines[k])]

\* the log holds two or more response-body blocks, each closed before the next
\* one opens
SeveralBlocks(lines) ==
    LET markers == {k \in 1..Len(lines) : startsWith(lines[k], ResponseBodyMarker)}
    IN  /\ Cardinality(markers) >= 2
        /\ \A k \in markers : lines[k] = ResponseBodyMarker
        /\ \A k \in markers : k # Greatest(markers) =>
               \E j \in (k + 1)..Len(lines) :
                   /\ IsBodyEnd(lines[j])
                   /\ \A m \in markers : m > k => m > j

\* C9: when the verbose output holds a response-body block for an earlier hop or
\* entry and another one for the final call, the body the extractor returns is
\* that of the final call, the last block.
C9_FinalHopBody ==
    (runResult # None /\ hasEntries(shown.json) /\ SeveralBlocks(stderrLines)) =>
        info.body =
            joinLines(Unstar(BlockAfter(stderrLines,
                Greatest({k \in 1..Len(stderrLines) :
                              stderrLines[k] = ResponseBodyMarker}))))

\* C10 as stated: the body is the lines of stderr that follow a line equal to
\* "* Response body:" up to, not including, the first later line that is "*" or
\* starts with "* Timings:", each with one leading "* " removed, joined by
\* newlines; a line that only starts with the marker opens nothing, and the
\* trace has no part in it.
C10_BodyIsMarkedBlock ==
    runResult # None =>
        LET markers == {k \in 1..Len(stderrLines) : stderrLines[k] = ResponseBodyMarker}
        IN  info.body =
                IF markers = {} THEN <<>>
                ELSE joinLines(Unstar(BlockAfter(stderrLines, Least(markers))))

NotMarked(line) == ~startsWith(line, ResponseBodyMarker)

\* C10 amended: the body is the lines of stderr that follow the first line that
\* starts with "* Response body:" up to, not including, the first later line
\* that is "*" or starts with "* Timings:", without the lines among them that
\* start with "* Response body:", each with one leading "* " removed, joined by
\* newlines. With a trace of at least one entry the body is this text whatever
\* the trace holds; without one it is this text or, when that is empty, the
\* whole of stderr.
C10_BodyIsFirstOpenedBlock ==
    runResult # None =>
        LET opens == {k \in 1..Len(stderrLines) : ~NotMarked(stderrLines[k])}
            text == IF opens = {} THEN <<>>
                    ELSE joinLines(Unstar(SelectSeq(
                             BlockAfter(stderrLines, Least(opens)), NotMarked)))
        IN  info.body =
                IF hasEntries(shown.json) \/ text # <<>> THEN text ELSE shown.stderr

\* a run with a trace whose log is the marker, "* a", "b" and "*": the body
\* shown is "a\nb"
C10_Witness ==
    /\ runResult # None
    /\ hasEntries(shown.json)
    /\ stderrLines = <<ResponseBodyMarker, <<"*"," ","a">>, <<"b">>, Star>>
    /\ info.body = <<"a", NL, "b">>

\* the asserts the panel lists for the RunResult shown: the source text it is
\* given is savedContent
shownAsserts == explicitAsserts(info.asserts, splitLines(savedContent))

Occurrences(seq, x) == Cardinality({k \in 1..Len(seq) : seq[k] = x})

\* line n, counted from 1, of the source text is there and, trimmed, starts
\* with HTTP
IsHttpLine(n) ==
    /\ n \in 1..Len(splitLines(savedContent))
    /\ startsWith(trim(splitLines(savedContent)[n]), HTTP)

\* C11: an assertion result whose line in the source text, trimmed, starts with
\* HTTP is not among the displayed assertions and is not counted; every other
\* assertion result of the last entry is displayed exactly once; pass count +
\* fail count is the number of displayed assertions.
C11_ImplicitAssertsHidden ==
    runResult # None =>
        /\ \A k \in 1..Len(info.asserts) :
               Occurrences(shownAsserts, info.asserts[k]) =
                   IF IsHttpLine(info.asserts[k].line) THEN 0
                   ELSE Occurrences(info.asserts, info.asserts[k])
        /\ \A k \in 1..Len(shownAsserts) : Occurrences(info.asserts, shownAsserts[k]) > 0
        /\ passCount(shownAsserts) + failCount(shownAsserts) = Len(shownAsserts)

\* the file with HTTP 200 on line 2 and a run with results for lines 2, 3 and 5:
\* the two for lines 3 and 5 are shown, one passed and one failed
C11_Witness ==
    /\ runResult # None
    /\ savedContent = DefaultContent
    /\ Len(info.asserts) = 3
    /\ Len(shownAsserts) = 2
    /\ \A k \in 1..2 : shownAsserts[k].line # 2
    /\ passCount(shownAsserts) = 1
    /\ failCount(shownAsserts) = 1

(***************************************************************************)
(* Claims about the server's run and its result                            *)
(***************************************************************************)
\* how the runner's invocation for the last request ended, and what was sent
ended == invocation[1].outcome
sent == answer[1].body

\* C12: for every failure of the runner process (not found, non-zero exit,
\* timeout, too much output) POST /api/run answers normally with a RunResult
\* whose success is false; its stderr is what the process wrote to stderr or,
\* when it wrote nothing there, the error's message.
C12_FailureIsAResult ==
    (invocation # None /\ ended.kind \in {"not found", "exit 1", "timeout", "maxBuffer"}) =>
        /\ answer[1].status = 200
        /\ sent.success = FALSE
        /\ sent.stderr = IF ended.stderr # None /\ ended.stderr[1] # <<>>
                         THEN ended.stderr[1]
                         ELSE ended.message[1]

\* C13: when the runner exits non-zero and its stdout is a valid JSON trace,
\* the RunResult has success false and json set to that trace, and
\* extractResponseInfo yields from it what it yields from the RunResult of a
\* clean exit with the same stdout and stderr.
C13_FailedRunKeepsTrace ==
    (invocation # None /\ ended.kind = "exit 1"
     /\ \E d \in JsonDocuments : d.text = ended.stdout[1]) =>
        /\ sent.success = FALSE
        /\ \E d \in JsonDocuments : d.text = ended.stdout[1] /\ sent.json = Some(d.value)
        /\ \A duration \in Durations :
               extractResponseInfo(sent) =
                   extractResponseInfo(runResultOf(
                       [kind |-> "exit 0", stdout |-> ended.stdout,
                        stderr |-> ended.stderr, message |-> None], duration))

\* a run that exited non-zero after writing the trace of one entry: the panel
\* has its status 200 and its assert
C13_Witness ==
    /\ invocation # None
    /\ ended.kind = "exit 1"
    /\ ended.stdout = Some(OneEntryTraceText)
    /\ sent.success = FALSE
    /\ extractResponseInfo(sent).status = 200
    /\ Len(extractResponseInfo(sent).asserts) = 1

\* C14: when the runner's stdout is not valid JSON, on a clean exit or a failed
\* one, the answer is a RunResult with json null, and extractResponseInfo
\* yields status 0, no headers, no asserts and a body of raw text: the body
\* found in stderr or, without one, stderr itself.
C14_NoJsonNoTrace ==
    (invocation # None /\ ended.stdout # None
     /\ ~\E d \in JsonDocuments : d.text = ended.stdout[1]) =>
        /\ answer[1].status = 200
        /\ sent.json = None
        /\ extractResponseInfo(sent).status = 0
        /\ extractResponseInfo(sent).headers = <<>>
        /\ extractResponseInfo(sent).asserts = <<>>
        /\ extractResponseInfo(sent).body \in {extractBodyFromVerbose(sent.stderr), sent.stderr}
        /\ extractResponseInfo(sent).body = <<>> => sent.stderr = <<>>

\* a run that exited non-zero after writing half a trace: json is null and the
\* body is the one found in stderr
C14_Witness ==
    /\ invocation # None
    /\ ended.kind = "exit 1"
    /\ ended.stdout = Some(TruncatedTraceText)
    /\ sent.json = None
    /\ extractResponseInfo(sent).status = 0
    /\ extractResponseInfo(sent).body = <<"a">>

\* C15 as stated: the body is the raw stderr exactly when the scan of stderr
\* yields nothing and json is null; with a json that is not null, also one
\* whose entries list is empty, and a scan that yields nothing the body is empty.
C15_FallbackWithoutTrace ==
    runResult # None =>
        info.body = IF extractBodyFromVerbose(shown.stderr) = <<>> /\ shown.json = None
                    THEN shown.stderr
                    ELSE extractBodyFromVerbose(shown.stderr)

\* C15 amended: the body is the raw stderr exactly when the scan of stderr yields
\* nothing and the JSON trace has no entry (json is null, has no entries list or
\* an empty one); with a trace of at least one entry and a scan that yields
\* nothing the body is empty.
C15_FallbackWithoutEntries ==
    runResult # None =>
        info.body = IF extractBodyFromVerbose(shown.stderr) = <<>>
                       /\ (shown.json = None \/ shown.json[1].entries = None
                           \/ shown.json[1].entries[1] = <<>>)
                    THEN shown.stderr
                    ELSE extractBodyFromVerbose(shown.stderr)

\* a trace with an empty entries list and a log without a body: the log is shown
C15_Witness ==
    /\ runResult # None
    /\ shown.json = Some([entries |-> Some(<<>>)])
    /\ extractBodyFromVerbose(shown.stderr) = <<>>
    /\ shown.stderr # <<>>
    /\ info.body = shown.stderr
\* C17: for a request whose file exists, the runner's arguments are --json,
\* --very-verbose and the file's path, then, for a named environment,
\* --variables-file with the shared file if it exists and --variables-file with
\* the secrets file if it exists, in this order; when neither exists the
\* runner is not invoked and the answer is 404.
C17_RunnerArguments ==
    (req # None /\ req[1].route = "POST /api/run" /\ req[1].file # <<>> /\ req[1].found) =>
        LET hurlPath == COLLECTIONS_DIR \o <<"/">> \o req[1].file \o DotHurl
            named == req[1].environment # None /\ req[1].environment[1] # <<>>
            envFile == req[1].environment[1] \o DotEnv
            secretsFile == req[1].environment[1] \o DotSecretsEnv
            shared == IF named /\ envFile \in envDir
                      THEN <<VariablesFileFlag, ENVIRONMENTS_DIR \o <<"/">> \o envFile>>
                      ELSE <<>>
            secret == IF named /\ secretsFile \in envDir
                      THEN <<VariablesFileFlag, ENVIRONMENTS_DIR \o <<"/">> \o secretsFile>>
                      ELSE <<>>
        IN  IF named /\ shared = <<>> /\ secret = <<>>
            THEN invocation = None /\ answer[1].status = 404
            ELSE /\ invocation # None
                 /\ invocation[1].args = <<JsonFlag, VeryVerboseFlag, hurlPath>> \o shared \o secret
                 /\ Len(invocation[1].args) \in {3, 5, 7}
                 /\ ~named => Len(invocation[1].args) = 3

\* a run with the environment dev, whose two files exist: both are passed, the
\* shared one first
C17_Witness ==
    /\ req # None /\ req[1].route = "POST /api/run"
    /\ req[1].environment = Some(Dev)
    /\ invocation # None
    /\ Len(invocation[1].args) = 7
    /\ invocation[1].args[5] = ENVIRONMENTS_DIR \o <<"/">> \o Dev \o DotEnv
    /\ invocation[1].args[7] = ENVIRONMENTS_DIR \o <<"/">> \o Dev \o DotSecretsEnv

\* C18: the answer of GET /api/environments has no name twice and no name
\* ending in .secrets; an environment with a .env and a .secrets.env file is in
\* it as its name.
C18_EachEnvironmentOnce ==
    (req # None /\ req[1].route = "GET /api/environments") =>
        LET names == answer[1].body
        IN  /\ \A i, j \in 1..Len(names) : i # j => names[i] # names[j]
            /\ \A i \in 1..Len(names) : ~endsWith(names[i], <<".","s","e","c","r","e","t","s">>)
            /\ \A f \in envDir :
                   LET name == SubSeq(f, 1, Len(f) - Len(DotSecretsEnv))
                   IN  (endsWith(f, DotSecretsEnv) /\ name \o DotEnv \in envDir)
                           => \E i \in 1..Len(names) : names[i] = name

(***************************************************************************)
(* Claims about the body block and a missing HTTP line                     *)
(***************************************************************************)
\* the lines of the text in the editor and the request parsed from it
typed == contentLines(editorContent)
parsed == parseHurl(editorContent)

\* the lines of the parsed body
parsedBodyLines == IF parsed.body = <<>> THEN <<>> ELSE splitLines(parsed.body)

\* the first line after the header block: after the request line, the header
\* lines and the blank line that ends them, if there is one
afterHeaders ==
    LET next == Len(parsed.headers) + 2
    IN  IF next <= Len(typed) /\ trim(typed[next]) = <<>> THEN next + 1 ELSE next

\* the first line from afterHeaders on that, trimmed, starts with HTTP, or the
\* end of the text
firstHttp ==
    LET found == {k \in afterHeaders..Len(typed) : startsWith(trim(typed[k]), HTTP)}
    IN  IF found = {} THEN Len(typed) + 1
        ELSE CHOOSE k \in found : \A other \in found : k <= other

\* the lines between the header block and the HTTP line
bodyBlock == SubSeq(typed, afterHeaders, firstHttp - 1)

\* C19: the lines of the body are the lines between the header block and the
\* first HTTP line, verbatim and in order, without the blank lines that end
\* this block: every line left out is a trailing blank one, the last line kept
\* is not blank, and a line of Key: Value shape in the block stays in the body.
C19_BodyBlockVerbatim ==
    Len(typed) > 0 =>
        /\ Len(parsedBodyLines) <= Len(bodyBlock)
        /\ parsedBodyLines = SubSeq(bodyBlock, 1, Len(parsedBodyLines))
        /\ \A k \in Len(parsedBodyLines) + 1..Len(bodyBlock) : trim(bodyBlock[k]) = <<>>
        /\ Len(parsedBodyLines) > 0 => trim(parsedBodyLines[Len(parsedBodyLines)]) # <<>>

\* a body that starts at the first line that is not a header, holds a line of
\* Key: Value shape after it, and has lost the blank line at its end
C19_Witness ==
    /\ Len(typed) = 4
    /\ parsed.headers = <<>>
    /\ afterHeaders = 2
    /\ typed[2] = <<"x">>
    /\ typed[3] = <<"A",":"," ","b">>
    /\ typed[4] = <<" ">>
    /\ parsedBodyLines = << <<"x">>, <<"A",":"," ","b">> >>

\* C20: in a text with no line that starts with HTTP, responseStatus is empty
\* and a line that follows a [Captures] or an [Asserts] marker is among the
\* captures or the asserts.
C20_SectionsWithoutStatus ==
    (\A k \in 1..Len(typed) : ~startsWith(trim(typed[k]), HTTP)) =>
        /\ parsed.responseStatus = <<>>
        /\ \A k \in 3..Len(typed) :
               trim(typed[k]) \notin {CapturesMarker, AssertsMarker} =>
                   /\ trim(typed[k - 1]) = CapturesMarker =>
                          \E c \in 1..Len(parsed.captures) : parsed.captures[c] = trim(typed[k])
                   /\ trim(typed[k - 1]) = AssertsMarker =>
                          \E a \in 1..Len(parsed.asserts) : parsed.asserts[a] = trim(typed[k])

(***************************************************************************)
(* Claims about the sections                                               *)
(***************************************************************************)
\* the lines the section loop looks at: those after the HTTP line
scanned == firstHttp + 1..Len(typed)

isMarker(line) == trim(line) \in {CapturesMarker, AssertsMarker}

\* the marker a scanned line stands under: the last marker before it, if any
markerBefore(k) ==
    LET before == {m \in scanned : m < k /\ isMarker(typed[m])}
    IN  IF before = {} THEN None
        ELSE Some(trim(typed[CHOOSE m \in before : \A other \in before : other <= m]))

\* the scanned lines under a marker, in the order of the text
linesUnder(marker) ==
    LET under == {k \in scanned : ~isMarker(typed[k]) /\ markerBefore(k) = Some(marker)}
    IN  [n \in 1..Cardinality(under) |->
            typed[CHOOSE k \in under : Cardinality({j \in under : j < k}) = n - 1]]

writtenLines == splitLines(editorContent)
fieldLines ==
    <<written[1].method \o <<" ">> \o written[1].url>>
    \o [k \in 1..Len(written[1].headers) |->
           written[1].headers[k].key \o <<":"," ">> \o written[1].headers[k].value]
    \o (IF trim(written[1].body) # <<>> THEN <<<<>>>> \o splitLines(written[1].body) ELSE <<>>)

hasResponsePart ==
    \/ written[1].responseStatus # <<>>
    \/ written[1].captures # <<>>
    \/ written[1].asserts # <<>>

\* C22: the text written for a document has, after the lines of its request
\* line, headers and body, a blank line and one line HTTP <status> exactly
\* when responseStatus, captures or asserts is not empty, the status being
\* responseStatus or * for an empty one; otherwise it has these lines only
\* and no HTTP line is written; the text always ends with a newline.
C22_ResponsePart ==
    written # None =>
        /\ editorContent[Len(editorContent)] = NL
        /\ SubSeq(writtenLines, 1, Len(fieldLines)) = fieldLines
        /\ IF hasResponsePart
           THEN /\ Len(writtenLines) >= Len(fieldLines) + 3
                /\ writtenLines[Len(fieldLines) + 1] = <<>>
                /\ writtenLines[Len(fieldLines) + 2] =
                       HTTP \o <<" ">> \o (IF written[1].responseStatus = <<>>
                                           THEN <<"*">> ELSE written[1].responseStatus)
                /\ \A k \in Len(fieldLines) + 3..Len(writtenLines) :
                       ~startsWith(writtenLines[k], HTTP)
           ELSE writtenLines = fieldLines \o <<<<>>>>

\* a document with an assert and no status, written with HTTP *
C22_Witness ==
    /\ written # None
    /\ written[1].responseStatus = <<>>
    /\ written[1].asserts # <<>>
    /\ writtenLines[Len(fieldLines) + 2] = HTTP \o <<" ","*">>

(***************************************************************************)
(* Claims about lines in front of the first section marker                 *)
(***************************************************************************)
\* the lines of the file that was opened
opened == contentLines(savedContent)

\* the HTTP line of the opened file, or the end of the text
openedHttp == parseBodyEnd(opened, parseHeaders(opened, 2, <<>>).i)

\* the lines of the opened file after the HTTP line that are not blank, are not
\* a marker and have no marker between the HTTP line and them
orphans ==
    {k \in openedHttp + 1..Len(opened) :
         /\ trim(opened[k]) # <<>>
         /\ \A m \in openedHttp + 1..k : trim(opened[m]) \notin {CapturesMarker, AssertsMarker}}

\* C23: a line after the HTTP line and in front of the first marker is in no
\* field of the parsed document: the text without the line parses to the same
\* document, sections included; once the visual editor has written the text
\* again no line of it is that line.
C23_OrphanDiscarded ==
    \A k \in orphans :
        /\ parseHurl(savedContent) = parseHurl(joinLines(removeAt(opened, k)))
        /\ \A c \in 1..Len(parseHurl(savedContent).captures) :
               parseHurl(savedContent).captures[c] # trim(opened[k])
        /\ \A a \in 1..Len(parseHurl(savedContent).asserts) :
               parseHurl(savedContent).asserts[a] # trim(opened[k])
        /\ edits >= 1 =>
               \A n \in 1..Len(splitLines(editorContent)) :
                   trim(splitLines(editorContent)[n]) # trim(opened[k])

\* the file with the line y between HTTP 200 and [Asserts], after an edit that
\* left its assert in place
C23_Witness ==
    /\ savedContent = OrphanLine
    /\ orphans = {3}
    /\ edits = 1
    /\ written # None
    /\ written[1].asserts = << <<"x">> >>
    /\ \A n \in 1..Len(splitLines(editorContent)) : splitLines(editorContent)[n] # <<"y">>

\* the fields of a document
DocumentFields ==
    {"method", "url", "headers", "body", "responseStatus", "captures", "asserts"}

\* the fields in which the document handed to serializeHurl differs from the
\* document the editor had parsed: the fields the patch changed
patchedFields(before, doc) == {f \in DocumentFields : doc[f] # before[f]}

\* an update of the visual editor has just rewritten the text
updated == written' # None /\ edits' = edits + 1

\* C26: a visual-editor update of one field changes only that field: the
\* document parsed from the rewritten text equals the document parsed before
\* the update in every field the patch did not change
C26_OnlyThePatchedField ==
    [][updated =>
        \A f \in DocumentFields \ patchedFields(parseHurl(editorContent), written'[1]) :
            parseHurl(editorContent')[f] = parseHurl(editorContent)[f]]_vars

(***************************************************************************)
(* Claims about the rows of the asserts tab                                *)
(***************************************************************************)
\* the rows of the asserts tab and the texts a row shows
shownRows ==
    [k \in 1..Len(shownAsserts) |-> assertRow(shownAsserts[k], splitLines(savedContent))]
rowTexts(row) ==
    {row.label} \cup IF row.detail = None THEN {}
                     ELSE {row.detail[1].actual, row.detail[1].expected}

\* C24: the row of a displayed assertion with a message shows the two values
\* as separate fields if the message has an actual: and an expected: value,
\* and the raw message otherwise.
C24_MessageAlwaysShown ==
    runResult # None =>
        \A k \in 1..Len(shownAsserts) :
            (messageOf(shownAsserts[k]) # None /\ shownAsserts[k].message # <<>>) =>
                IF /\ matchAfter(shownAsserts[k].message, ActualName) # None
                   /\ matchAfter(shownAsserts[k].message, ExpectedName) # None
                THEN /\ shownRows[k].detail # None
                     /\ shownRows[k].detail[1].actual = <<"1">>
                     /\ shownRows[k].detail[1].expected = <<"2">>
                ELSE shownAsserts[k].message \in rowTexts(shownRows[k])

(***************************************************************************)
(* Claims about the result shown and the file that was run                 *)
(***************************************************************************)
\* C25: the source text the panel labels and filters the asserts of the
\* displayed result with, savedContent, is the text the runner executed for
\* that result.
C25_ResultAgainstExecutedText ==
    runResult # None => executed[1].text = Some(savedContent)

\* C28: a result that is displayed is the result of a run of the open file.
C28_ResultOfActiveFile ==
    runResult # None => activeFile = Some(executed[1].file)

\* C30: the file the runner is invoked on holds the text the editor had when
\* Run was triggered; a handleRun whose write failed invokes no runner.
C30_RunsWhatWasTriggered ==
    \A k \in 1..Len(runs) :
        /\ runs[k].pc = "running" => runs[k].ran = Some(runs[k].content)
        /\ runs[k].pc = "save fails" => runs[k].ran = None

\* a rename the server has carried out
renamed == handleRenameFile /\ answer'[1].status = 200

\* C27: a successful PATCH /api/files/:name keeps the section of the file: the
\* new name is mapped to the section the old name was mapped to, and no other
\* mapping changes, also when the new name is the old name
C27_RenameKeepsSection ==
    [][renamed /\ req'[1].name \in DOMAIN metadata.fileGroups =>
        /\ answer'[1].body.newName \in DOMAIN metadata'.fileGroups
        /\ metadata'.fileGroups[answer'[1].body.newName] = metadata.fileGroups[req'[1].name]
        /\ \A n \in SidebarNames \ {req'[1].name, answer'[1].body.newName} :
               /\ n \in DOMAIN metadata'.fileGroups <=> n \in DOMAIN metadata.fileGroups
               /\ n \in DOMAIN metadata.fileGroups =>
                      metadata'.fileGroups[n] = metadata.fileGroups[n]]_vars

\* every value of metadata.fileGroups is the id of a section of
\* metadata.sections
groupsAreSections ==
    \A n \in DOMAIN metadata.fileGroups : metadata.fileGroups[n] \in sectionIds(metadata)

\* the sections a step has deleted
deleted == sectionIds(metadata) \ sectionIds(metadata')

\* handleDeleteSection removes the sections of the id and the mappings to it,
\* and nothing else
deletesSectionOnly ==
    /\ metadata'.sections = SelectSeq(metadata.sections, LAMBDA sec : sec.id \notin deleted)
    /\ \A n \in SidebarNames :
           IF n \in DOMAIN metadata.fileGroups /\ metadata.fileGroups[n] \notin deleted
           THEN n \in DOMAIN metadata'.fileGroups
                /\ metadata'.fileGroups[n] = metadata.fileGroups[n]
           ELSE n \notin DOMAIN metadata'.fileGroups

\* C29: after any sequence of sidebar operations every value of
\* metadata.fileGroups is the id of a section present in metadata.sections,
\* and deleting a section removes every mapping to it and leaves every other
\* mapping and every other section as it was
C29_GroupsAreSections ==
    /\ []groupsAreSections
    /\ [][handleDeleteSection => deletesSectionOnly]_vars

\* the first section has been deleted and a file is in another section
C29_Witness ==
    /\ "s1" \notin sectionIds(metadata)
    /\ \E n \in DOMAIN metadata.fileGroups : metadata.fileGroups[n] = "s2"

(***************************************************************************)
(* Claims about overlapping runs                                           *)
(***************************************************************************)
\* the runs whose api.runHurl call has not ended
inFlight == {k \in 1..Len(runs) : runs[k].pc = "running"}

\* C16 as stated: at most one runner invocation is in flight at any time; no
\* click of Run and no Mod-Enter starts a second one, also not during the
\* auto-save that precedes a run.
C16_OneInFlight ==
    Cardinality(inFlight) <= 1

\* C16 amended: the Run button starts a run (calls handleRun) only in a state
\* where isRunning is false; Mod-Enter calls handleRun in any state, and a run
\* sets isRunning only after its auto-save, so runs can overlap.
C16_ButtonOnlyWhenIdle ==
    [][(Len(runs') = Len(runs) + 1 /\ runs'[Len(runs')].how = "button") => ~isRunning]_vars

\* a run started by the button and one started by Mod-Enter while the first had
\* not ended
C16_Witness ==
    /\ Len(runs) = 2
    /\ runs[1].how = "button" /\ runs[1].pc = "running"
    /\ runs[2].how = "key" /\ runs[2].pc = "running"
    /\ isRunning

====
